---- MODULE Spec2Model ----
(***************************************************************************)
(* Model of backlog-assist's persistence layer (utils/localStorage.ts),    *)
(* the working-state reducer and its synchronisation shim                  *)
(* (contexts/AppContext.tsx, contexts/AppContextDefinition.ts).            *)
(*                                                                         *)
(* JSON values are tagged records.  A scalar is [t, v]; a date-like field  *)
(* is [t, n]; a stored text is [k, ...] where k is the outcome of          *)
(* localStorage.getItem followed by JSON.parse:                            *)
(*   "absent"  getItem returns null                                        *)
(*   "empty"   the empty text ""                                           *)
(*   "garbage" JSON.parse throws                                           *)
(*   "falsy"   parses to null, 0, false or ""                              *)
(*   "scalar"  parses to a truthy number, string or true                   *)
(*   "object"  parses to a non-array object                                *)
(*   "array"   parses to an array                                          *)
(***************************************************************************)
EXTENDS Integers, Sequences, FiniteSets, TLC

VARIABLES store, clock, state, rendered, phase, lastOp, ret, mdSet

vars == <<store, clock, state, rendered, phase, lastOp, ret, mdSet>>

\* Longest array drawn for the initial content of a stored key.
MaxLen == 2

\* Last value of the wall clock (new Date()) the model lets time reach.
MaxTime == 2

-----------------------------------------------------------------------------
(* JSON scalars and JavaScript coercions *)

Str(s) == [t |-> "str", v |-> s]

Num(s) == [t |-> "num", v |-> s]

Bool(b) == [t |-> "bool", v |-> IF b THEN "true" ELSE "false"]

Undef == [t |-> "undef", v |-> ""]

\* JavaScript truthiness of a scalar (the `!x` and `x &&` tests of the source).
Truthy(x) ==
    \/ x.t = "str" /\ x.v # ""
    \/ x.t = "num" /\ x.v # "0"
    \/ x.t = "bool" /\ x.v = "true"

\* typeof x === 'string'
IsString(x) == x.t = "str"

\* typeof x === 'boolean'
IsBoolean(x) == x.t = "bool"

\* A Date object holding time n, and the Invalid Date.
DateOf(n) == [t |-> "date", n |-> n]

InvalidDate == [t |-> "invalid", n |-> 0]

\* The JSON forms a date-like field can have in a stored text.
Iso(n) == [t |-> "iso", n |-> n]

DNull == [t |-> "null", n |-> 0]

DUndef == [t |-> "undef", n |-> 0]

DText == [t |-> "str", n |-> 0]

\* new Date(x): an ISO string parses, null is the epoch, a Date is copied,
\* undefined and any other string give the Invalid Date.
NewDate(x) ==
    CASE x.t = "iso" -> DateOf(x.n)
      [] x.t = "null" -> DateOf(0)
      [] x.t = "date" -> x
      [] OTHER -> InvalidDate

\* Date.prototype.toJSON as JSON.stringify applies it: the Invalid Date
\* becomes null.
DateToJSON(d) ==
    CASE d.t = "date" -> Iso(d.n)
      [] d.t = "invalid" -> DNull
      [] OTHER -> d

\* x instanceof Date
IsDateInstance(d) == d.t \in {"date", "invalid"}

\* Truthiness of a date-like field (every object, also the Invalid Date, is
\* truthy).
DateTruthy(d) == d.t \in {"date", "invalid", "iso", "str"}

MapSeq(s, F(_)) == [i \in 1..Len(s) |-> F(s[i])]

SeqsUpTo(S, n) == UNION {[1..m -> S] : m \in 0..n}

-----------------------------------------------------------------------------
(* Record shapes *)

\* types/index.ts Rule (priority and description are carried along untouched
\* and play no part in any operation modelled here).
Rule(id, text, category) == [id |-> id, text |-> text, category |-> category]

\* The `rules` field of a rule set: an array, or something that is not one.
RulesArr(items) == [t |-> "arr", items |-> items]

RulesUndef == [t |-> "undef", items |-> <<>>]

\* An element of the rule-set array.  k is "obj" for an object, "null" for
\* a null element and "scalar" for a number, string or boolean element.
RuleSetRec(id, name, rules, createdAt, updatedAt) ==
    [k |-> "obj", id |-> id, name |-> name, rules |-> rules,
     createdAt |-> createdAt, updatedAt |-> updatedAt]

NullRuleSetElem ==
    [k |-> "null", id |-> Undef, name |-> Undef, rules |-> RulesUndef,
     createdAt |-> DUndef, updatedAt |-> DUndef]

\* types/index.ts ChecklistItem, with k as for rule-set elements.
Item(id, text, checked, category) ==
    [k |-> "obj", id |-> id, text |-> text, checked |-> checked, category |-> category]

NullItem == [k |-> "null", id |-> Undef, text |-> Undef, checked |-> Undef, category |-> Undef]

\* The screenshots field: an array of File objects ("file"), of strings
\* ("str") or of nulls, or a value that is not an array.
Shots(items) == [t |-> "arr", items |-> items]

ShotsUndef == [t |-> "undef", items |-> <<>>]

ShotsText == [t |-> "str", items |-> <<>>]

File(name) == [t |-> "file", v |-> name]

\* types/index.ts ReportData (description, category and relatedIssues are
\* strings carried along like issueNumber).
Report(issueNumber, priority, screenshots) ==
    [issueNumber |-> issueNumber, priority |-> priority, screenshots |-> screenshots]

NoFields == Report(Undef, Undef, ShotsUndef)

\* Stored texts, one shape per key.
ListText(k, items) == [k |-> k, items |-> items]

FormText(k, obj) == [k |-> k, obj |-> obj]

AbsentList == ListText("absent", <<>>)

AbsentForm == FormText("absent", NoFields)

EmptyStore == [ruleSets |-> AbsentList, formData |-> AbsentForm, checklist |-> AbsentList]

\* JSON.parse succeeded.
Parsed(text) == text.k \in {"falsy", "scalar", "object", "array"}

-----------------------------------------------------------------------------
(* utils/localStorage.ts: readers *)

DecodeRuleSet(e) ==
    [k |-> "obj", id |-> e.id, name |-> e.name, rules |-> e.rules,
     createdAt |-> NewDate(e.createdAt), updatedAt |-> NewDate(e.updatedAt)]

EncodeRuleSet(r) ==
    [k |-> "obj", id |-> r.id, name |-> r.name, rules |-> r.rules,
     createdAt |-> DateToJSON(r.createdAt), updatedAt |-> DateToJSON(r.updatedAt)]

\* getRuleSets: [] when the key is absent or empty, when the text does not
\* parse, when the value has no map method, and when an element is null
\* (reading null.createdAt throws inside map); the catch returns [].
getRuleSets(s) ==
    LET text == s.ruleSets
    IN IF text.k # "array" THEN <<>>
       ELSE IF \E i \in 1..Len(text.items) : text.items[i].k = "null" THEN <<>>
       ELSE MapSeq(text.items, DecodeRuleSet)

\* The value getFormData returns: k = "none" for null.
FormValue(k, obj) == [k |-> k, obj |-> obj]

\* A getFormData that hands back the stored screenshot names.
getFormDataKeepsNames(s) ==
    LET text == s.formData
    IN CASE text.k \in {"absent", "empty", "garbage"} -> FormValue("none", NoFields)
         [] text.k \in {"falsy", "scalar", "array"} -> FormValue(text.k, NoFields)
         [] OTHER -> FormValue("object", text.obj)

\* getFormData: null when absent, empty or unparseable (the catch), and when
\* the text parses to null (reading null.screenshots throws); an array of
\* screenshots is reset to [].
getFormData(s) ==
    LET text == s.formData
    IN CASE text.k \in {"absent", "empty", "garbage"} -> FormValue("none", NoFields)
         [] text.k \in {"falsy", "scalar", "array"} -> FormValue(text.k, NoFields)
         [] OTHER ->
              FormValue("object",
                  IF text.obj.screenshots.t = "arr"
                  THEN [text.obj EXCEPT !.screenshots = Shots(<<>>)]
                  ELSE text.obj)

\* `if (formData)`
FormTruthy(d) == d.k \in {"scalar", "array", "object"}

\* getChecklistState: stored ? JSON.parse(stored) : null, null in the catch.
getChecklistState(s) ==
    LET text == s.checklist
    IN IF Parsed(text) THEN text ELSE ListText("none", <<>>)

\* `if (checklistState)`
ListTruthy(c) == c.k \in {"scalar", "object", "array"}

-----------------------------------------------------------------------------
(* utils/localStorage.ts: validateStoredData *)

Err(code, index) == [code |-> code, index |-> index]

RuleSetErrors(r, index) ==
    (IF ~Truthy(r.id) \/ ~IsString(r.id) THEN <<Err("ruleset-invalid-id", index)>> ELSE <<>>)
    \o (IF ~Truthy(r.name) \/ ~IsString(r.name) THEN <<Err("ruleset-invalid-name", index)>> ELSE <<>>)
    \o (IF r.rules.t # "arr" THEN <<Err("ruleset-invalid-rules", index)>> ELSE <<>>)
    \o (IF ~IsDateInstance(r.createdAt) /\ ~DateTruthy(r.createdAt)
        THEN <<Err("ruleset-invalid-createdAt", index)>> ELSE <<>>)

RECURSIVE AllRuleSetErrors(_, _)
AllRuleSetErrors(rs, i) ==
    IF i > Len(rs) THEN <<>>
    ELSE RuleSetErrors(rs[i], i - 1) \o AllRuleSetErrors(rs, i + 1)

Priorities == {"low", "medium", "high"}

FormErrors(d) ==
    IF ~FormTruthy(d) THEN <<>>
    ELSE IF d.k = "scalar" THEN <<Err("form-not-object", -1)>>
    ELSE (IF Truthy(d.obj.priority) /\ ~(IsString(d.obj.priority) /\ d.obj.priority.v \in Priorities)
          THEN <<Err("form-invalid-priority", -1)>> ELSE <<>>)
      \o (IF d.obj.screenshots.t \notin {"undef", "arr"}
          THEN <<Err("form-screenshots-not-array", -1)>> ELSE <<>>)

ItemErrors(it, index) ==
    (IF ~Truthy(it.id) \/ ~IsString(it.id) THEN <<Err("item-invalid-id", index)>> ELSE <<>>)
    \o (IF ~Truthy(it.text) \/ ~IsString(it.text) THEN <<Err("item-invalid-text", index)>> ELSE <<>>)
    \o (IF ~IsBoolean(it.checked) THEN <<Err("item-invalid-checked", index)>> ELSE <<>>)

\* forEach over the checklist: reading null.id throws, which ends the loop
\* and sends validateStoredData to its catch with one more error.
RECURSIVE AllItemErrors(_, _)
AllItemErrors(items, i) ==
    IF i > Len(items) THEN <<>>
    ELSE IF items[i].k = "null" THEN <<Err("validation-error", -1)>>
    ELSE ItemErrors(items[i], i - 1) \o AllItemErrors(items, i + 1)

ChecklistErrors(c) ==
    IF ~ListTruthy(c) THEN <<>>
    ELSE IF c.k # "array" THEN <<Err("checklist-not-array", -1)>>
    ELSE AllItemErrors(c.items, 1)

validateStoredData(s) ==
    LET errors == AllRuleSetErrors(getRuleSets(s), 1)
                  \o FormErrors(getFormData(s))
                  \o ChecklistErrors(getChecklistState(s))
    IN [isValid |-> Len(errors) = 0, errors |-> errors]

-----------------------------------------------------------------------------
(* utils/localStorage.ts: writers.  quota = TRUE means localStorage.setItem
   throws (QuotaExceededError) for the writes of the operation; every writer
   catches it and leaves the key as it was. *)

setItem(s, key, text, quota) == IF quota THEN s ELSE [s EXCEPT ![key] = text]

removeItem(s, key) ==
    [s EXCEPT ![key] = IF key = "formData" THEN AbsentForm ELSE AbsentList]

EncodeRuleSets(rs) == ListText("array", MapSeq(rs, EncodeRuleSet))

\* A saveRuleSet that pushes without dropping the entries with the same id.
saveRuleSetAppends(s, ruleSet, now, quota) ==
    setItem(s, "ruleSets",
            EncodeRuleSets(Append(getRuleSets(s), [ruleSet EXCEPT !.updatedAt = DateOf(now)])),
            quota)

\* saveRuleSet: drop the entries with the same id, push the rule set with
\* updatedAt = new Date(), write the whole collection back.
saveRuleSet(s, ruleSet, now, quota) ==
    LET existingRuleSets == getRuleSets(s)
        updatedRuleSets ==
            Append(SelectSeq(existingRuleSets, LAMBDA rs : rs.id # ruleSet.id),
                   [ruleSet EXCEPT !.updatedAt = DateOf(now)])
    IN setItem(s, "ruleSets", EncodeRuleSets(updatedRuleSets), quota)

removeRuleSet(s, ruleSetId, quota) ==
    LET existingRuleSets == getRuleSets(s)
        updatedRuleSets == SelectSeq(existingRuleSets, LAMBDA rs : rs.id # ruleSetId)
    IN setItem(s, "ruleSets", EncodeRuleSets(updatedRuleSets), quota)

\* file => file.name: a File gives its name, a string has no name property
\* (undefined, which JSON.stringify writes as null inside an array).
ShotName(f) == IF f.t = "file" THEN [t |-> "str", v |-> f.v] ELSE [t |-> "null", v |-> ""]

\* reportData.screenshots?.map(file => file.name) throws when screenshots is
\* a truthy value without map, or when an element is null.
ShotsMapThrows(shots) ==
    \/ shots.t = "str"
    \/ shots.t = "arr" /\ \E i \in 1..Len(shots.items) : shots.items[i].t = "null"

\* saveFormData: the argument is a FormValue (spreading a scalar or an array
\* yields none of the ReportData fields).
saveFormData(s, reportData, quota) ==
    LET shots == reportData.obj.screenshots
        dataToSave ==
            [reportData.obj EXCEPT !.screenshots =
                IF shots.t = "arr" THEN Shots(MapSeq(shots.items, ShotName)) ELSE Shots(<<>>)]
    IN IF ShotsMapThrows(shots) THEN s
       ELSE setItem(s, "formData", FormText("object", dataToSave), quota)

clearFormData(s) == removeItem(s, "formData")

\* saveChecklistState: JSON.stringify(checklist) keeps every item as it is.
saveChecklistState(s, checklist, quota) ==
    setItem(s, "checklist", ListText("array", checklist), quota)

clearChecklistState(s) == removeItem(s, "checklist")

clearAllData(s) == removeItem(removeItem(removeItem(s, "ruleSets"), "formData"), "checklist")

-----------------------------------------------------------------------------
(* utils/localStorage.ts: repairData *)

Act(code, n) == [code |-> code, n |-> n]

\* The filter of the rule-set branch.
RepairKeeps(ruleSet) == Truthy(ruleSet.id) /\ Truthy(ruleSet.name) /\ ruleSet.rules.t = "arr"

RepairRuleSets(s, quota) ==
    LET ruleSets == getRuleSets(s)
        validRuleSets == SelectSeq(ruleSets, RepairKeeps)
    IN IF Len(validRuleSets) # Len(ruleSets)
       THEN IF quota
            THEN [store |-> removeItem(s, "ruleSets"),
                  actions |-> <<Act("corrupted-rulesets-removed", 0)>>]
            ELSE [store |-> setItem(s, "ruleSets", EncodeRuleSets(validRuleSets), FALSE),
                  actions |-> <<Act("invalid-rulesets-removed", Len(ruleSets) - Len(validRuleSets))>>]
       ELSE [store |-> s, actions |-> <<>>]

RepairFormData(s) ==
    LET formData == getFormData(s)
    IN IF FormTruthy(formData) /\ formData.k = "scalar"
       THEN [store |-> removeItem(s, "formData"),
             actions |-> <<Act("corrupted-form-data-removed", 0)>>]
       ELSE [store |-> s, actions |-> <<>>]

\* A checklist branch that reports the removal without removing the key.
RepairChecklistKeepsKey(s) ==
    LET checklistState == getChecklistState(s)
    IN IF ListTruthy(checklistState) /\ checklistState.k # "array"
       THEN [store |-> s, actions |-> <<Act("corrupted-checklist-removed", 0)>>]
       ELSE [store |-> s, actions |-> <<>>]

RepairChecklist(s) ==
    LET checklistState == getChecklistState(s)
    IN IF ListTruthy(checklistState) /\ checklistState.k # "array"
       THEN [store |-> removeItem(s, "checklist"),
             actions |-> <<Act("corrupted-checklist-removed", 0)>>]
       ELSE [store |-> s, actions |-> <<>>]

repairData(s, quota) ==
    IF validateStoredData(s).isValid
    THEN [store |-> s, repaired |-> FALSE, actions |-> <<>>]
    ELSE LET r1 == RepairRuleSets(s, quota)
             r2 == RepairFormData(r1.store)
             r3 == RepairChecklist(r2.store)
             actions == r1.actions \o r2.actions \o r3.actions
         IN [store |-> r3.store, repaired |-> Len(actions) > 0, actions |-> actions]

-----------------------------------------------------------------------------
(* utils/localStorage.ts: exportData / importData *)

FORMAT_VERSION == "1.0.0"

Bundle(k, version, ruleSets, formData, checklistState, exportedAt) ==
    [k |-> k, version |-> version, ruleSets |-> ruleSets, formData |-> formData,
     checklistState |-> checklistState, exportedAt |-> exportedAt]

\* JSON.stringify of what the readers return (null is "falsy").
FormValueToJSON(d) == IF d.k = "none" THEN FormText("falsy", NoFields) ELSE FormText(d.k, d.obj)

ListValueToJSON(c) == IF c.k = "none" THEN ListText("falsy", <<>>) ELSE c

exportData(s, now) ==
    Bundle("object", Str(FORMAT_VERSION),
           EncodeRuleSets(getRuleSets(s)),
           FormValueToJSON(getFormData(s)),
           ListValueToJSON(getChecklistState(s)),
           Iso(now))

\* data.ruleSets.forEach: saveRuleSet never throws, so the handler that
\* pushes the "ruleset-import-failed" error for a rule set runs only for a
\* null element, which throws on ruleSet.createdAt; there the handler throws
\* again on ruleSet.name, which leaves forEach for the outer catch.
RECURSIVE ImportRuleSets(_, _, _, _, _)
ImportRuleSets(s, items, i, now, quota) ==
    IF i > Len(items) THEN [store |-> s, threw |-> FALSE]
    ELSE IF items[i].k = "null" THEN [store |-> s, threw |-> TRUE]
    ELSE ImportRuleSets(saveRuleSet(s, DecodeRuleSet(items[i]), now, quota),
                        items, i + 1, now, quota)

ImportErr(code, name) == [code |-> code, name |-> name]

\* An import that clears the three keys before it stores the bundle.
importDataReplaces(s, jsonData, now, quota) ==
    IF jsonData.k # "object"
    THEN [store |-> s, success |-> FALSE, errors |-> <<ImportErr("parse-failed", Undef)>>]
    ELSE LET e1 == IF ~Truthy(jsonData.version) THEN <<ImportErr("no-version", Undef)>> ELSE <<>>
             r1 == IF jsonData.ruleSets.k = "array"
                   THEN ImportRuleSets(clearAllData(s), jsonData.ruleSets.items, 1, now, quota)
                   ELSE [store |-> clearAllData(s), threw |-> FALSE]
             s2 == IF FormTruthy(jsonData.formData)
                   THEN saveFormData(r1.store, jsonData.formData, quota)
                   ELSE r1.store
             s3 == IF jsonData.checklistState.k = "array"
                   THEN saveChecklistState(s2, jsonData.checklistState.items, quota)
                   ELSE s2
         IN IF r1.threw
            THEN [store |-> r1.store, success |-> FALSE,
                  errors |-> e1 \o <<ImportErr("parse-failed", Undef)>>]
            ELSE [store |-> s3, success |-> Len(e1) = 0, errors |-> e1]

importData(s, jsonData, now, quota) ==
    IF jsonData.k # "object"
    THEN [store |-> s, success |-> FALSE, errors |-> <<ImportErr("parse-failed", Undef)>>]
    ELSE LET e1 == IF ~Truthy(jsonData.version) THEN <<ImportErr("no-version", Undef)>> ELSE <<>>
             r1 == IF jsonData.ruleSets.k = "array"
                   THEN ImportRuleSets(s, jsonData.ruleSets.items, 1, now, quota)
                   ELSE [store |-> s, threw |-> FALSE]
             s2 == IF FormTruthy(jsonData.formData)
                   THEN saveFormData(r1.store, jsonData.formData, quota)
                   ELSE r1.store
             s3 == IF jsonData.checklistState.k = "array"
                   THEN saveChecklistState(s2, jsonData.checklistState.items, quota)
                   ELSE s2
         IN IF r1.threw
            THEN [store |-> r1.store, success |-> FALSE,
                  errors |-> e1 \o <<ImportErr("parse-failed", Undef)>>]
            ELSE [store |-> s3, success |-> Len(e1) = 0, errors |-> e1]

-----------------------------------------------------------------------------
(* data/ruleSets.ts: the built-in rule sets, each cut down to its first
   rules; the texts are abbreviated. *)

figmaDesignRules ==
    RuleSetRec(Str("figma-design-rules"), Str("Figma design review rules"),
        RulesArr(<<Rule(Str("design-system-components"), Str("design system components used"), Str("consistency")),
                   Rule(Str("responsive-design"), Str("responsive design"), Str("responsive"))>>),
        DateOf(0), DateOf(0))

codeReviewRules ==
    RuleSetRec(Str("code-review-rules"), Str("Code review rules"),
        RulesArr(<<Rule(Str("code-style"), Str("coding style followed"), Str("quality"))>>),
        DateOf(0), DateOf(0))

uiTestRules ==
    RuleSetRec(Str("ui-test-rules"), Str("UI test rules"),
        RulesArr(<<Rule(Str("visual-consistency"), Str("visual consistency"), Str("UI/UX"))>>),
        DateOf(0), DateOf(0))

allRuleSets == <<figmaDesignRules, codeReviewRules, uiTestRules>>

-----------------------------------------------------------------------------
(* contexts/AppContext.tsx: state and reducer *)

initialReportData == Report(Str(""), Str("medium"), Shots(<<>>))

\* selectedRuleSet = null is the null element.
initialState ==
    [selectedRuleSet |-> NullRuleSetElem,
     checklist |-> <<>>,
     reportData |-> initialReportData,
     availableRuleSets |-> allRuleSets,
     generatedMarkdown |-> ""]

Action(type, ruleSet, checklist, reportData, markdown, ruleSets) ==
    [type |-> type, ruleSet |-> ruleSet, checklist |-> checklist,
     reportData |-> reportData, markdown |-> markdown, ruleSets |-> ruleSets]

SET_RULE_SET(ruleSet) == Action("SET_RULE_SET", ruleSet, <<>>, NoFields, "", <<>>)

RESET_RULE_SET == Action("RESET_RULE_SET", NullRuleSetElem, <<>>, NoFields, "", <<>>)

UPDATE_CHECKLIST(checklist) == Action("UPDATE_CHECKLIST", NullRuleSetElem, checklist, NoFields, "", <<>>)

UPDATE_REPORT_DATA(reportData) == Action("UPDATE_REPORT_DATA", NullRuleSetElem, <<>>, reportData, "", <<>>)

GENERATE_MARKDOWN(markdown) == Action("GENERATE_MARKDOWN", NullRuleSetElem, <<>>, NoFields, markdown, <<>>)

SET_AVAILABLE_RULE_SETS(ruleSets) == Action("SET_AVAILABLE_RULE_SETS", NullRuleSetElem, <<>>, NoFields, "", ruleSets)

\* A checklist item that loses the rule's category.
ItemOfRuleNoCategory(rule) == Item(rule.id, rule.text, Bool(FALSE), Undef)

\* rule => ({id, text, checked: false, category})
ItemOfRule(rule) == Item(rule.id, rule.text, Bool(FALSE), rule.category)

\* A reducer whose UPDATE_REPORT_DATA leaves the generated document alone.
appReducerKeepsMarkdown(st, action) ==
    CASE action.type = "SET_RULE_SET" ->
           [st EXCEPT !.selectedRuleSet = action.ruleSet,
                      !.checklist = MapSeq(action.ruleSet.rules.items, ItemOfRule),
                      !.generatedMarkdown = ""]
      [] action.type = "RESET_RULE_SET" ->
           [st EXCEPT !.selectedRuleSet = NullRuleSetElem,
                      !.checklist = <<>>,
                      !.generatedMarkdown = ""]
      [] action.type = "UPDATE_CHECKLIST" ->
           [st EXCEPT !.checklist = action.checklist, !.generatedMarkdown = ""]
      [] action.type = "UPDATE_REPORT_DATA" ->
           [st EXCEPT !.reportData = action.reportData]
      [] action.type = "GENERATE_MARKDOWN" ->
           [st EXCEPT !.generatedMarkdown = action.markdown]
      [] action.type = "SET_AVAILABLE_RULE_SETS" ->
           [st EXCEPT !.availableRuleSets = action.ruleSets]
      [] OTHER -> st

\* A reducer that follows an edit of the selected rule set: the entry of the
\* new list with the id of the selected rule set becomes the selected one
\* and the checklist is derived again.
appReducerFollowsEdit(st, action) ==
    CASE action.type = "SET_RULE_SET" ->
           [st EXCEPT !.selectedRuleSet = action.ruleSet,
                      !.checklist = MapSeq(action.ruleSet.rules.items, ItemOfRule),
                      !.generatedMarkdown = ""]
      [] action.type = "RESET_RULE_SET" ->
           [st EXCEPT !.selectedRuleSet = NullRuleSetElem,
                      !.checklist = <<>>,
                      !.generatedMarkdown = ""]
      [] action.type = "UPDATE_CHECKLIST" ->
           [st EXCEPT !.checklist = action.checklist, !.generatedMarkdown = ""]
      [] action.type = "UPDATE_REPORT_DATA" ->
           [st EXCEPT !.reportData = action.reportData, !.generatedMarkdown = ""]
      [] action.type = "GENERATE_MARKDOWN" ->
           [st EXCEPT !.generatedMarkdown = action.markdown]
      [] action.type = "SET_AVAILABLE_RULE_SETS" ->
           LET edited == SelectSeq(action.ruleSets,
                                   LAMBDA rs : st.selectedRuleSet.k # "null"
                                               /\ rs.id = st.selectedRuleSet.id)
           IN IF edited = <<>> THEN [st EXCEPT !.availableRuleSets = action.ruleSets]
              ELSE [st EXCEPT !.availableRuleSets = action.ruleSets,
                              !.selectedRuleSet = edited[1],
                              !.checklist = MapSeq(edited[1].rules.items, ItemOfRule)]
      [] OTHER -> st

appReducer(st, action) ==
    CASE action.type = "SET_RULE_SET" ->
           [st EXCEPT !.selectedRuleSet = action.ruleSet,
                      !.checklist = MapSeq(action.ruleSet.rules.items, ItemOfRule),
                      !.generatedMarkdown = ""]
      [] action.type = "RESET_RULE_SET" ->
           [st EXCEPT !.selectedRuleSet = NullRuleSetElem,
                      !.checklist = <<>>,
                      !.generatedMarkdown = ""]
      [] action.type = "UPDATE_CHECKLIST" ->
           [st EXCEPT !.checklist = action.checklist, !.generatedMarkdown = ""]
      [] action.type = "UPDATE_REPORT_DATA" ->
           [st EXCEPT !.reportData = action.reportData, !.generatedMarkdown = ""]
      [] action.type = "GENERATE_MARKDOWN" ->
           [st EXCEPT !.generatedMarkdown = action.markdown]
      [] action.type = "SET_AVAILABLE_RULE_SETS" ->
           [st EXCEPT !.availableRuleSets = action.ruleSets]
      [] OTHER -> st

\* The reducer applied to the dispatched actions in dispatch order.
RECURSIVE Reduce(_, _)
Reduce(st, actions) ==
    IF actions = <<>> THEN st ELSE Reduce(appReducer(st, Head(actions)), Tail(actions))

-----------------------------------------------------------------------------
(* contexts/AppContextDefinition.ts: initializeFromStorage and the context
   operations *)

\* Add stored rule sets whose id is not yet in the merged list.
\* A merge in which a stored rule set takes the place of the entry with
\* its id.
RECURSIVE MergeRuleSetsReplaces(_, _)
MergeRuleSetsReplaces(merged, stored) ==
    IF stored = <<>> THEN merged
    ELSE LET storedRuleSet == Head(stored)
             existsInDefaults == \E i \in 1..Len(merged) : merged[i].id = storedRuleSet.id
         IN MergeRuleSetsReplaces(
                IF existsInDefaults
                THEN [i \in 1..Len(merged) |->
                        IF merged[i].id = storedRuleSet.id THEN storedRuleSet ELSE merged[i]]
                ELSE Append(merged, storedRuleSet),
                Tail(stored))

RECURSIVE MergeRuleSets(_, _)
MergeRuleSets(merged, stored) ==
    IF stored = <<>> THEN merged
    ELSE LET storedRuleSet == Head(stored)
             existsInDefaults == \E i \in 1..Len(merged) : merged[i].id = storedRuleSet.id
         IN MergeRuleSets(IF existsInDefaults THEN merged ELSE Append(merged, storedRuleSet),
                          Tail(stored))

\* {...base, ...data}: a field data does not carry keeps the base value.
Spread(base, data) ==
    [issueNumber |-> IF data.issueNumber.t = "undef" THEN base.issueNumber ELSE data.issueNumber,
     priority |-> IF data.priority.t = "undef" THEN base.priority ELSE data.priority,
     screenshots |-> IF data.screenshots.t = "undef" THEN base.screenshots ELSE data.screenshots]

\* The load of initializeFromStorage, from the store s1 that validation and
\* repair leave.
LoadFromStorage(s1, st, isValid) ==
    LET mergedRuleSets == MergeRuleSets(allRuleSets, getRuleSets(s1))
        savedFormData == getFormData(s1)
        completeFormData == [Spread(initialReportData, savedFormData.obj) EXCEPT !.screenshots = Shots(<<>>)]
        savedChecklist == getChecklistState(s1)
        dispatched ==
            (IF Len(mergedRuleSets) # Len(allRuleSets)
             THEN <<SET_AVAILABLE_RULE_SETS(mergedRuleSets)>> ELSE <<>>)
            \o (IF FormTruthy(savedFormData) THEN <<UPDATE_REPORT_DATA(completeFormData)>> ELSE <<>>)
            \o (IF ListTruthy(savedChecklist) THEN <<UPDATE_CHECKLIST(savedChecklist.items)>> ELSE <<>>)
    IN [store |-> s1,
        state |-> Reduce(st, dispatched),
        dispatched |-> dispatched,
        isValid |-> isValid,
        repairRan |-> ~isValid]

initializeFromStorage(s, st, quota) ==
    LET validation == validateStoredData(s)
    IN LoadFromStorage(IF ~validation.isValid THEN repairData(s, quota).store ELSE s,
                       st, validation.isValid)

setRuleSet(st, ruleSet) ==
    IF ruleSet.k # "null" THEN appReducer(st, SET_RULE_SET(ruleSet))
    ELSE appReducer(st, RESET_RULE_SET)

\* state.checklist.map(item => item.id === itemId ? {...item, checked} : item)
WithChecked(checklist, itemId, checked) ==
    MapSeq(checklist, LAMBDA item : IF item.id = itemId
                                    THEN [item EXCEPT !.checked = checked] ELSE item)

\* An updateChecklistItem that drops the in-memory change when the store
\* rejects the write.
updateChecklistItemRollsBack(s, snapshot, st, itemId, checked, quota) ==
    LET updatedChecklist == WithChecked(snapshot.checklist, itemId, checked)
    IN [state |-> IF quota THEN st ELSE appReducer(st, UPDATE_CHECKLIST(updatedChecklist)),
        store |-> saveChecklistState(s, updatedChecklist, quota)]

\* updateChecklistItem and updateReportData read `state` as the function
\* closed over it at the last render (snapshot); dispatch applies the action
\* to the reducer's current state (st).
updateChecklistItem(s, snapshot, st, itemId, checked, quota) ==
    LET updatedChecklist == WithChecked(snapshot.checklist, itemId, checked)
    IN [state |-> appReducer(st, UPDATE_CHECKLIST(updatedChecklist)),
        store |-> saveChecklistState(s, updatedChecklist, quota)]

updateReportData(s, snapshot, st, data, quota) ==
    LET updatedReportData == Spread(snapshot.reportData, data)
    IN [state |-> appReducer(st, UPDATE_REPORT_DATA(updatedReportData)),
        store |-> saveFormData(s, FormValue("object", updatedReportData), quota)]

generateMarkdownOp(st, markdown) == appReducer(st, GENERATE_MARKDOWN(markdown))

\* A clearTemporaryData without the RESET_RULE_SET dispatch.
clearTemporaryDataKeepsRuleSet(s, st) ==
    [store |-> clearChecklistState(clearFormData(s)),
     state |-> Reduce(st, <<UPDATE_REPORT_DATA(initialReportData), UPDATE_CHECKLIST(<<>>),
                            GENERATE_MARKDOWN("")>>)]

clearTemporaryData(s, st) ==
    [store |-> clearChecklistState(clearFormData(s)),
     state |-> Reduce(st, <<UPDATE_REPORT_DATA(initialReportData), UPDATE_CHECKLIST(<<>>),
                            RESET_RULE_SET, GENERATE_MARKDOWN("")>>)]

-----------------------------------------------------------------------------
(* Inputs *)

Rule1 == Rule(Str("r1"), Str("Check A"), Str("X"))

Rule2 == Rule(Str("r2"), Str("Check B"), Str("Y"))

\* Rule sets as a caller holds them (Date objects in the date fields).
CustomA == RuleSetRec(Str("rs1"), Str("Custom one"), RulesArr(<<Rule1>>), DateOf(1), DateOf(1))

CustomA2 == RuleSetRec(Str("rs1"), Str("Custom one, edited"), RulesArr(<<Rule2, Rule1>>), DateOf(1), DateOf(2))

CustomB == RuleSetRec(Str("rs2"), Str("Custom two"), RulesArr(<<Rule1, Rule2>>), DateOf(2), DateOf(2))

EmptyRules == RuleSetRec(Str("rs2"), Str("No rules"), RulesArr(<<>>), DateOf(1), DateOf(1))

RuleSetInputs == {CustomA, CustomA2, CustomB}

\* Elements a rule-set text can hold when the store was not written by this
\* version of the program: a numeric id, a missing name, a missing rules
\* array, a null element.
NumIdElem == RuleSetRec(Num("5"), Str("Numeric id"), RulesArr(<<Rule1>>), Iso(1), Iso(1))

NoNameElem == RuleSetRec(Str("rs2"), Undef, RulesArr(<<Rule2>>), DUndef, Iso(1))

NoRulesElem == RuleSetRec(Str("rs3"), Str("No rules array"), RulesUndef, Iso(1), DText)

RuleSetElems == {EncodeRuleSet(CustomA), NumIdElem, NoNameElem, NoRulesElem, NullRuleSetElem}

Item1 == Item(Str("r1"), Str("Check A"), Bool(FALSE), Str("X"))

Item2 == Item(Str("r2"), Str("Check B"), Bool(TRUE), Undef)

BadCheckedItem == Item(Str("r3"), Str("Check C"), Str("yes"), Str("X"))

ItemElems == {Item1, BadCheckedItem, NullItem}

ListTexts(elems) ==
    {ListText(k, <<>>) : k \in {"absent", "garbage", "object"}}
    \cup {ListText("array", items) : items \in SeqsUpTo(elems, MaxLen)}

FormObjects ==
    {Report(Str("PROJ-1"), Str("high"), Shots(<<[t |-> "str", v |-> "a.png"]>>)),
     Report(Str("PROJ-1"), Str("urgent"), ShotsUndef),
     Report(Undef, Str(""), Shots(<<>>)),
     Report(Str("PROJ-2"), Undef, ShotsText)}

FormTexts ==
    {FormText(k, NoFields) : k \in {"absent", "garbage", "falsy", "scalar", "array"}}
    \cup {FormText("object", obj) : obj \in FormObjects}

\* Every content the three keys can have at startup.
AnyStores ==
    {[ruleSets |-> r, formData |-> f, checklist |-> c] :
        r \in ListTexts(RuleSetElems), f \in FormTexts, c \in ListTexts(ItemElems)}

-----------------------------------------------------------------------------
(* History: the last operation, its arguments (data, itemId, checked, bundle,
   action), whether the store rejected its writes (quota) and what it
   returned.  `rendered` is the state the context functions closed over at
   the last render; an operation followed by a re-render leaves it equal to
   `state`. *)

NoBundle == Bundle("garbage", Undef, AbsentList, AbsentForm, AbsentList, DUndef)

NoAction == Action("", NullRuleSetElem, <<>>, NoFields, "", <<>>)

NoRet ==
    [again |-> FALSE, quota |-> FALSE, isValid |-> TRUE, errors |-> <<>>, repaired |-> FALSE,
     actions |-> <<>>, success |-> TRUE, importErrors |-> <<>>, repairRan |-> FALSE,
     bundle |-> NoBundle, action |-> NoAction,
     returned |-> "undefined", data |-> NoFields, itemId |-> Undef, checked |-> Undef,
     ruleSet |-> NullRuleSetElem,
     markdown |-> <<>>, info |-> [used |-> 0, available |-> 0, keys |-> <<>>]]

Step(op, s, st, r) ==
    /\ store' = s
    /\ state' = st
    /\ rendered' = st
    /\ lastOp' = op
    /\ ret' = [r EXCEPT !.again = (lastOp = op)]

InitWith(s, ph) ==
    /\ store = s
    /\ clock = 1
    /\ state = initialState
    /\ rendered = initialState
    /\ phase = ph
    /\ lastOp = "none"
    /\ ret = NoRet
    /\ mdSet = FALSE

-----------------------------------------------------------------------------
(* Storage operations as actions *)

ValidateStoredDataOp ==
    /\ LET v == validateStoredData(store)
       IN Step("validateStoredData", store, state,
               [NoRet EXCEPT !.isValid = v.isValid, !.errors = v.errors])
    /\ UNCHANGED <<clock, phase, mdSet>>

RepairDataOp(quota) ==
    /\ LET r == repairData(store, quota)
       IN Step("repairData", r.store, state,
               [NoRet EXCEPT !.repaired = r.repaired, !.actions = r.actions, !.quota = quota])
    /\ UNCHANGED <<clock, phase, mdSet>>

InitAnyStore == \E s \in AnyStores : InitWith(s, "storage")

NextRepair == ValidateStoredDataOp \/ \E quota \in BOOLEAN : RepairDataOp(quota)

SpecRepair == InitAnyStore /\ [][NextRepair]_vars

-----------------------------------------------------------------------------
(* Startup *)

\* Whether generatedMarkdown was last written by GENERATE_MARKDOWN, with none
\* of the four clearing actions dispatched since.
RECURSIVE MdSetAfter(_, _)
MdSetAfter(g, actions) ==
    IF actions = <<>> THEN g
    ELSE MdSetAfter(
            CASE Head(actions).type = "GENERATE_MARKDOWN" -> TRUE
              [] Head(actions).type \in {"SET_RULE_SET", "RESET_RULE_SET",
                                         "UPDATE_CHECKLIST", "UPDATE_REPORT_DATA"} -> FALSE
              [] OTHER -> g,
            Tail(actions))

\* The provider after the mount effect returned r.
Mounted(r, quota) ==
    /\ Step("initializeFromStorage", r.store, r.state,
            [NoRet EXCEPT !.isValid = r.isValid, !.repairRan = r.repairRan, !.quota = quota])
    /\ mdSet' = MdSetAfter(mdSet, r.dispatched)

InitializeFromStorageOp(quota) ==
    /\ phase = "mounting"
    /\ Mounted(initializeFromStorage(store, state, quota), quota)
    /\ phase' = "ready"
    /\ UNCHANGED clock

InitMounting == \E s \in AnyStores : InitWith(s, "mounting")

NextStartup == \E quota \in BOOLEAN : InitializeFromStorageOp(quota)

SpecStartup == InitMounting /\ [][NextStartup]_vars

-----------------------------------------------------------------------------
(* The storage API driven from an empty store *)

FormInputs ==
    {Report(Str("PROJ-1"), Str("high"), Shots(<<File("a.png")>>)),
     Report(Undef, Str("low"), ShotsUndef)}

ChecklistInputs == {<<>>, <<[Item1 EXCEPT !.checked = Bool(TRUE)], Item2>>}

\* Bundles handed to importData besides the ones exportData produced.
BundleMixed ==
    Bundle("object", Str(FORMAT_VERSION),
           ListText("array", <<EncodeRuleSet(CustomA), EncodeRuleSet(EmptyRules)>>),
           FormText("falsy", NoFields), ListText("falsy", <<>>), Iso(1))

BundleNoVersion ==
    Bundle("object", Undef, ListText("array", <<EncodeRuleSet(CustomB)>>),
           FormText("falsy", NoFields), ListText("falsy", <<>>), Iso(1))

BundleBadRecords ==
    Bundle("object", Str("0.9.0"), ListText("falsy", <<>>),
           FormText("object", Report(Str("PROJ-1"), Str("urgent"), ShotsUndef)),
           ListText("array", <<BadCheckedItem>>), Iso(1))

BundleNullElem ==
    Bundle("object", Str(FORMAT_VERSION),
           ListText("array", <<EncodeRuleSet(CustomA), NullRuleSetElem>>),
           FormText("falsy", NoFields), ListText("falsy", <<>>), Iso(1))

Bundles == {BundleMixed, BundleNoVersion, BundleBadRecords, BundleNullElem, NoBundle}

RuleSetIds == {Str("rs1"), Str("rs2"), Str("rs9")}

Tick ==
    /\ clock < MaxTime
    /\ clock' = clock + 1
    /\ UNCHANGED <<store, state, rendered, phase, lastOp, ret, mdSet>>

SaveRuleSetOp(ruleSet, quota) ==
    /\ Step("saveRuleSet", saveRuleSet(store, ruleSet, clock, quota), state,
            [NoRet EXCEPT !.quota = quota])
    /\ UNCHANGED <<clock, phase, mdSet>>

RemoveRuleSetOp(ruleSetId, quota) ==
    /\ Step("removeRuleSet", removeRuleSet(store, ruleSetId, quota), state,
            [NoRet EXCEPT !.quota = quota])
    /\ UNCHANGED <<clock, phase, mdSet>>

SaveFormDataOp(reportData, quota) ==
    /\ Step("saveFormData", saveFormData(store, FormValue("object", reportData), quota), state,
            [NoRet EXCEPT !.quota = quota, !.data = reportData])
    /\ UNCHANGED <<clock, phase, mdSet>>

SaveChecklistStateOp(checklist, quota) ==
    /\ Step("saveChecklistState", saveChecklistState(store, checklist, quota), state,
            [NoRet EXCEPT !.quota = quota])
    /\ UNCHANGED <<clock, phase, mdSet>>

ClearFormDataOp ==
    /\ Step("clearFormData", clearFormData(store), state, NoRet)
    /\ UNCHANGED <<clock, phase, mdSet>>

ClearChecklistStateOp ==
    /\ Step("clearChecklistState", clearChecklistState(store), state, NoRet)
    /\ UNCHANGED <<clock, phase, mdSet>>

ClearAllDataOp ==
    /\ Step("clearAllData", clearAllData(store), state, NoRet)
    /\ UNCHANGED <<clock, phase, mdSet>>

ExportDataOp ==
    /\ Step("exportData", store, state, [NoRet EXCEPT !.bundle = exportData(store, clock)])
    /\ UNCHANGED <<clock, phase, mdSet>>

ImportDataOp(jsonData, quota) ==
    /\ LET r == importData(store, jsonData, clock, quota)
       IN Step("importData", r.store, state,
               [NoRet EXCEPT !.success = r.success, !.importErrors = r.errors,
                             !.bundle = jsonData, !.quota = quota])
    /\ UNCHANGED <<clock, phase, mdSet>>

\* localStorageDemo.testExportImport: export, clear everything, import the
\* exported text back (the same data fits the store again).
testExportImport(s, now) ==
    LET exported == exportData(s, now)
        importResult == importData(clearAllData(s), exported, now, FALSE)
    IN [store |-> importResult.store, exported |-> exported, importResult |-> importResult]

TestExportImportOp ==
    /\ LET r == testExportImport(store, clock)
       IN Step("testExportImport", r.store, state,
               [NoRet EXCEPT !.success = r.importResult.success,
                             !.importErrors = r.importResult.errors])
    /\ UNCHANGED <<clock, phase, mdSet>>

InitEmptyStore == InitWith(EmptyStore, "storage")

NextStorage ==
    \/ Tick
    \/ \E ruleSet \in RuleSetInputs, quota \in BOOLEAN : SaveRuleSetOp(ruleSet, quota)
    \/ \E ruleSetId \in RuleSetIds, quota \in BOOLEAN : RemoveRuleSetOp(ruleSetId, quota)
    \/ \E reportData \in FormInputs, quota \in BOOLEAN : SaveFormDataOp(reportData, quota)
    \/ \E checklist \in ChecklistInputs, quota \in BOOLEAN : SaveChecklistStateOp(checklist, quota)
    \/ ClearFormDataOp
    \/ ClearChecklistStateOp
    \/ ClearAllDataOp
    \/ ExportDataOp
    \/ \E jsonData \in Bundles, quota \in BOOLEAN : ImportDataOp(jsonData, quota)
    \/ \E quota \in BOOLEAN : RepairDataOp(quota)
    \/ ValidateStoredDataOp
    \/ TestExportImportOp

SpecStorage == InitEmptyStore /\ [][NextStorage]_vars

-----------------------------------------------------------------------------
(* The reducer driven by dispatch *)

\* Rule sets of every rule sequence up to MaxLen, besides the named ones.
RuleSetPayloads ==
    RuleSetInputs \cup {EmptyRules, figmaDesignRules, codeReviewRules}
    \cup {RuleSetRec(Str("rs3"), Str("Custom three"), RulesArr(rules), DateOf(1), DateOf(1)) :
             rules \in SeqsUpTo({Rule1, Rule2}, MaxLen)}

ChecklistPayloads == ChecklistInputs \cup {<<Item1>>}

ReportPayloads ==
    {initialReportData, Report(Str("PROJ-1"), Str("high"), Shots(<<File("a.png")>>))}

Markdowns == {"", "# report"}

AvailablePayloads ==
    {allRuleSets, Append(allRuleSets, CustomA), Append(allRuleSets, CustomA2), <<codeReviewRules>>}

Dispatch(action) ==
    /\ Step(action.type, store, appReducer(state, action), [NoRet EXCEPT !.action = action])
    /\ mdSet' = MdSetAfter(mdSet, <<action>>)
    /\ UNCHANGED <<clock, phase>>

DispatchSetRuleSet == \E ruleSet \in RuleSetPayloads : Dispatch(SET_RULE_SET(ruleSet))

DispatchResetRuleSet == Dispatch(RESET_RULE_SET)

DispatchUpdateChecklist == \E checklist \in ChecklistPayloads : Dispatch(UPDATE_CHECKLIST(checklist))

DispatchUpdateReportData == \E reportData \in ReportPayloads : Dispatch(UPDATE_REPORT_DATA(reportData))

DispatchGenerateMarkdown == \E markdown \in Markdowns : Dispatch(GENERATE_MARKDOWN(markdown))

DispatchSetAvailableRuleSets == \E ruleSets \in AvailablePayloads : Dispatch(SET_AVAILABLE_RULE_SETS(ruleSets))

InitReducer == InitWith(EmptyStore, "ready")

NextReducer ==
    \/ DispatchSetRuleSet
    \/ DispatchResetRuleSet
    \/ DispatchUpdateChecklist
    \/ DispatchUpdateReportData
    \/ DispatchGenerateMarkdown
    \/ DispatchSetAvailableRuleSets

SpecReducer == InitReducer /\ [][NextReducer]_vars

-----------------------------------------------------------------------------
(* A session: startup, then the context operations *)

SavedSession ==
    [ruleSets |-> ListText("array", <<EncodeRuleSet(CustomA)>>),
     formData |-> FormText("object", Report(Str("PROJ-1"), Str("high"), Shots(<<[t |-> "str", v |-> "a.png"]>>))),
     checklist |-> ListText("array", <<[Item1 EXCEPT !.checked = Bool(TRUE)]>>)]

SessionStores == {EmptyStore, SavedSession}

\* Partial<ReportData> arguments of updateReportData.
ReportUpdates ==
    {Report(Str("PROJ-1"), Undef, ShotsUndef),
     Report(Undef, Str("high"), ShotsUndef),
     Report(Undef, Undef, Shots(<<File("a.png")>>))}

ItemIds == {Str("r1"), Str("r2")}

SessionStep(op, r, dispatched) ==
    /\ phase = "ready"
    /\ Step(op, r.store, r.state, r.ret)
    /\ mdSet' = MdSetAfter(mdSet, dispatched)
    /\ UNCHANGED <<clock, phase>>

SetRuleSetOp(ruleSet) ==
    LET action == IF ruleSet.k # "null" THEN SET_RULE_SET(ruleSet) ELSE RESET_RULE_SET
    IN SessionStep("setRuleSet",
                   [store |-> store, state |-> setRuleSet(state, ruleSet),
                    ret |-> [NoRet EXCEPT !.action = action]],
                   <<action>>)

UpdateChecklistItemOp(itemId, checked, quota) ==
    LET r == updateChecklistItem(store, rendered, state, itemId, checked, quota)
    IN SessionStep("updateChecklistItem",
                   [store |-> r.store, state |-> r.state, ret |-> [NoRet EXCEPT !.quota = quota]],
                   <<UPDATE_CHECKLIST(r.state.checklist)>>)

UpdateReportDataOp(data, quota) ==
    LET r == updateReportData(store, rendered, state, data, quota)
    IN SessionStep("updateReportData",
                   [store |-> r.store, state |-> r.state, ret |-> [NoRet EXCEPT !.quota = quota]],
                   <<UPDATE_REPORT_DATA(r.state.reportData)>>)

GenerateMarkdownOp(markdown) ==
    SessionStep("generateMarkdown",
                [store |-> store, state |-> generateMarkdownOp(state, markdown), ret |-> NoRet],
                <<GENERATE_MARKDOWN(markdown)>>)

ClearTemporaryDataOp ==
    LET r == clearTemporaryData(store, state)
    IN SessionStep("clearTemporaryData",
                   [store |-> r.store, state |-> r.state, ret |-> NoRet],
                   <<UPDATE_REPORT_DATA(initialReportData), UPDATE_CHECKLIST(<<>>),
                     RESET_RULE_SET, GENERATE_MARKDOWN("")>>)

InitSession == \E s \in SessionStores : InitWith(s, "mounting")

NextSession ==
    \/ \E quota \in BOOLEAN : InitializeFromStorageOp(quota)
    \/ \E ruleSet \in {CustomA, CustomB, codeReviewRules, NullRuleSetElem} : SetRuleSetOp(ruleSet)
    \/ \E itemId \in ItemIds, checked \in {Bool(TRUE), Bool(FALSE)}, quota \in BOOLEAN :
          UpdateChecklistItemOp(itemId, checked, quota)
    \/ \E data \in ReportUpdates, quota \in BOOLEAN : UpdateReportDataOp(data, quota)
    \/ \E markdown \in Markdowns : GenerateMarkdownOp(markdown)
    \/ ClearTemporaryDataOp

SpecSession == InitSession /\ [][NextSession]_vars

-----------------------------------------------------------------------------
(* Context functions called against one rendered snapshot: a call leaves
   `rendered` as it is, and React's re-render brings it up to `state`. *)

\* The session after a rule set of two rules was selected and its checklist
\* saved.
BatchState == appReducer(initialState, SET_RULE_SET(CustomB))

BatchStore == saveChecklistState(EmptyStore, BatchState.checklist, FALSE)

BatchUpdates ==
    {Report(Str("PROJ-1"), Undef, ShotsUndef),
     Report(Undef, Str("high"), ShotsUndef)}

Called(op, r, args) ==
    /\ store' = r.store
    /\ state' = r.state
    /\ lastOp' = op
    /\ ret' = [args EXCEPT !.again = (lastOp = op)]
    /\ mdSet' = FALSE
    /\ UNCHANGED <<clock, rendered, phase>>

CallUpdateChecklistItem(itemId, checked, quota) ==
    Called("updateChecklistItem",
           updateChecklistItem(store, rendered, state, itemId, checked, quota),
           [NoRet EXCEPT !.itemId = itemId, !.checked = checked, !.quota = quota])

CallUpdateReportData(data, quota) ==
    Called("updateReportData",
           updateReportData(store, rendered, state, data, quota),
           [NoRet EXCEPT !.data = data, !.quota = quota])

\* The provider re-renders: the context functions close over the new state.
Render ==
    /\ rendered # state
    /\ rendered' = state
    /\ UNCHANGED <<store, clock, state, phase, lastOp, ret, mdSet>>

InitBatch ==
    /\ store = BatchStore
    /\ clock = 1
    /\ state = BatchState
    /\ rendered = BatchState
    /\ phase = "ready"
    /\ lastOp = "none"
    /\ ret = NoRet
    /\ mdSet = FALSE

NextBatch ==
    \/ \E itemId \in ItemIds, checked \in {Bool(TRUE), Bool(FALSE)}, quota \in BOOLEAN :
          CallUpdateChecklistItem(itemId, checked, quota)
    \/ \E data \in BatchUpdates, quota \in BOOLEAN : CallUpdateReportData(data, quota)
    \/ Render

SpecBatch == InitBatch /\ [][NextBatch]_vars

-----------------------------------------------------------------------------
(* components/RuleSetManager/RuleSetManager.tsx: validateRuleSet *)

\* String.prototype.trim on the strings of the model.
Trim(str) ==
    CASE str \in {" ", "  "} -> ""
      [] str = " PROJ-2 " -> "PROJ-2"
      [] str = " Broken layout " -> "Broken layout"
      [] OTHER -> str

Blank(x) == ~Truthy(x) \/ Trim(x.v) = ""

RuleFieldErrors(rule, index) ==
    (IF Blank(rule.id) THEN <<Err("rules.id", index)>> ELSE <<>>)
    \o (IF Blank(rule.text) THEN <<Err("rules.text", index)>> ELSE <<>>)
    \o (IF Blank(rule.category) THEN <<Err("rules.category", index)>> ELSE <<>>)

RECURSIVE AllRuleFieldErrors(_, _)
AllRuleFieldErrors(rules, i) ==
    IF i > Len(rules) THEN <<>>
    ELSE RuleFieldErrors(rules[i], i - 1) \o AllRuleFieldErrors(rules, i + 1)

validateRuleSet(ruleSet) ==
    (IF Blank(ruleSet.id) THEN <<Err("id", -1)>> ELSE <<>>)
    \o (IF Blank(ruleSet.name) THEN <<Err("name", -1)>> ELSE <<>>)
    \o (IF ruleSet.rules.t # "arr" \/ Len(ruleSet.rules.items) = 0 THEN <<Err("rules", -1)>> ELSE <<>>)
    \o AllRuleFieldErrors(ruleSet.rules.items, 1)

isCustomRuleSet(ruleSet) ==
    ruleSet.id \notin {Str("figma-design-rules"), Str("code-review-rules"), Str("ui-test-rules")}

\* handleDeleteRuleSet after window.confirm returned `confirmed`; `state` is
\* the snapshot the component rendered with.
handleDeleteRuleSet(s, snapshot, st, ruleSetId, confirmed, quota) ==
    IF ~confirmed THEN [store |-> s, state |-> st, dispatched |-> <<>>]
    ELSE LET updatedRuleSets == SelectSeq(snapshot.availableRuleSets, LAMBDA rs : rs.id # ruleSetId)
             dispatched ==
                 <<SET_AVAILABLE_RULE_SETS(updatedRuleSets)>>
                 \o (IF snapshot.selectedRuleSet.id = ruleSetId THEN <<RESET_RULE_SET>> ELSE <<>>)
         IN [store |-> removeRuleSet(s, ruleSetId, quota),
             state |-> Reduce(st, dispatched),
             dispatched |-> dispatched]

Deleted(r, ruleSetId, quota) ==
    /\ Step("handleDeleteRuleSet", r.store, r.state,
            [NoRet EXCEPT !.itemId = ruleSetId, !.quota = quota])
    /\ mdSet' = MdSetAfter(mdSet, r.dispatched)
    /\ UNCHANGED <<clock, phase>>

\* The delete button is rendered for the custom rule sets of the list.
HandleDeleteRuleSetOp(i, confirmed, quota) ==
    /\ phase = "ready"
    /\ i \in 1..Len(rendered.availableRuleSets)
    /\ isCustomRuleSet(rendered.availableRuleSets[i])
    /\ Deleted(handleDeleteRuleSet(store, rendered, state, rendered.availableRuleSets[i].id,
                                   confirmed, quota),
               rendered.availableRuleSets[i].id, quota)

\* The select button of a rule set of the list.
SelectListedOp(i) ==
    /\ i \in 1..Len(rendered.availableRuleSets)
    /\ validateRuleSet(rendered.availableRuleSets[i]) = <<>>
    /\ SetRuleSetOp(rendered.availableRuleSets[i])

\* Longest list of available rule sets: the built-in ones and the stored
\* custom one.
ListLen == Len(allRuleSets) + 1

NextManager ==
    \/ \E quota \in BOOLEAN : InitializeFromStorageOp(quota)
    \/ \E i \in 1..ListLen : SelectListedOp(i)
    \/ \E itemId \in ItemIds, checked \in {Bool(TRUE), Bool(FALSE)}, quota \in BOOLEAN :
          UpdateChecklistItemOp(itemId, checked, quota)
    \/ \E i \in 1..ListLen, confirmed \in BOOLEAN, quota \in BOOLEAN :
          HandleDeleteRuleSetOp(i, confirmed, quota)

SpecManager == InitSession /\ [][NextManager]_vars

-----------------------------------------------------------------------------
(* utils/markdownGenerator.ts.  A document is the sequence of its lines
   (what join('\n') separates), a line the sequence of the strings it is
   concatenated from; <<>> is the empty line.  The Japanese labels of the
   source are written in English. *)

TITLE == "# Issue review report"

SEPARATOR == "-----"

BASIC_INFO == "Basic information"

CHECKLIST_RESULTS == "Checklist results"

ATTACHMENTS == "Attachments"

DESCRIPTION == "Description"

RELATED_ISSUES == "Related issues"

NO_CHECKLIST == "*No checklist selected*"

NO_ATTACHMENTS == "*No attachments*"

NO_DESCRIPTION == "*No description given*"

UNSET == "unset"

OTHER_CATEGORY == "other"

\* ReportData as the generator reads it, every field a value of its
\* declared type; relatedIssues is optional.
MdReport(issueNumber, priority, category, description, screenshots, relatedIssues) ==
    [issueNumber |-> issueNumber, priority |-> priority, category |-> category,
     description |-> description, screenshots |-> screenshots, relatedIssues |-> relatedIssues]

Issues(items) == [t |-> "arr", items |-> items]

IssuesUndef == [t |-> "undef", items |-> <<>>]

H2(label) == <<"## ", label>>

\* The concatenation of a sequence of line sequences.
RECURSIVE Flatten(_)
Flatten(parts) == IF parts = <<>> THEN <<>> ELSE Head(parts) \o Flatten(Tail(parts))

\* parts.join('\n\n'): one empty line between consecutive parts.
RECURSIVE JoinBlank(_)
JoinBlank(parts) ==
    IF Len(parts) <= 1 THEN Flatten(parts)
    ELSE Head(parts) \o <<<<>>>> \o JoinBlank(Tail(parts))

getPriorityLabel(priority) ==
    CASE priority = "low" -> "Low"
      [] priority = "medium" -> "Medium"
      [] priority = "high" -> "High"
      [] OTHER -> priority

generateBasicInfo(reportData, now) ==
    <<H2(BASIC_INFO),
      <<>>,
      <<"* **Issue**: ", IF reportData.issueNumber # "" THEN reportData.issueNumber ELSE UNSET>>,
      <<"* **Priority**: ", getPriorityLabel(reportData.priority)>>,
      <<"* **Category**: ", IF reportData.category # "" THEN reportData.category ELSE UNSET>>,
      <<"* **Reported**: ", ToString(now)>>>>

\* item.category || default
CategoryOf(item) == IF Truthy(item.category) THEN item.category.v ELSE OTHER_CATEGORY

\* groupByCategory: the property keys of `groups` in the order of their
\* creation, each with its items in checklist order.
RECURSIVE GroupKeys(_, _)
GroupKeys(checklist, keys) ==
    IF checklist = <<>> THEN keys
    ELSE GroupKeys(Tail(checklist),
                   IF \E i \in 1..Len(keys) : keys[i] = CategoryOf(Head(checklist))
                   THEN keys ELSE Append(keys, CategoryOf(Head(checklist))))

groupByCategory(checklist) ==
    [keys |-> GroupKeys(checklist, <<>>),
     items |-> [category \in {CategoryOf(checklist[i]) : i \in 1..Len(checklist)} |->
                  SelectSeq(checklist, LAMBDA item : CategoryOf(item) = category)]]

\* The value of a property key that is an array index (a canonical
\* non-negative integer), -1 for any other key.
IndexValue(key) ==
    CASE key = "0" -> 0
      [] key = "1" -> 1
      [] key = "2" -> 2
      [] key = "10" -> 10
      [] OTHER -> -1

\* Integer keys in ascending order.
RECURSIVE SortedIndexKeys(_)
SortedIndexKeys(keys) ==
    IF keys = {} THEN <<>>
    ELSE LET least == CHOOSE k \in keys : \A other \in keys : IndexValue(k) <= IndexValue(other)
         IN <<least>> \o SortedIndexKeys(keys \ {least})

\* Object.entries(groups): the integer keys in ascending order first, then
\* the other keys in the order of their creation.
ObjectEntries(groups) ==
    SortedIndexKeys({groups.keys[i] : i \in {j \in 1..Len(groups.keys) : IndexValue(groups.keys[j]) >= 0}})
    \o SelectSeq(groups.keys, LAMBDA key : IndexValue(key) < 0)

\* A marker of more than one character.
ItemLineWord(item) == <<"* [", IF Truthy(item.checked) THEN "done" ELSE " ", "] ", item.text.v>>

\* `* [${item.checked ? 'x' : ' '}] ${item.text}`
ItemLine(item) == <<"* [", IF Truthy(item.checked) THEN "x" ELSE " ", "] ", item.text.v>>

CategoryBlock(category, items) == <<<<"### ", category>>, <<>>>> \o MapSeq(items, ItemLine)

generateChecklistResults(checklist) ==
    IF Len(checklist) = 0
    THEN <<H2(CHECKLIST_RESULTS), <<>>, <<NO_CHECKLIST>>>>
    ELSE LET groupedItems == groupByCategory(checklist)
             sections == MapSeq(ObjectEntries(groupedItems),
                                LAMBDA category : CategoryBlock(category, groupedItems.items[category]))
         IN JoinBlank(<<<<H2(CHECKLIST_RESULTS)>>, <<<<>>>>>> \o sections)

generateAttachments(screenshots) ==
    IF Len(screenshots) = 0
    THEN <<H2(ATTACHMENTS), <<>>, <<NO_ATTACHMENTS>>>>
    ELSE <<H2(ATTACHMENTS), <<>>>> \o MapSeq(screenshots, LAMBDA file : <<"* ", file.v>>)

\* A description section that is left out when there is no description.
generateDescriptionOmitsEmpty(description) ==
    IF Trim(description) = "" THEN <<>>
    ELSE <<H2(DESCRIPTION), <<>>, <<Trim(description)>>>>

generateDescription(description) ==
    IF Trim(description) = ""
    THEN <<H2(DESCRIPTION), <<>>, <<NO_DESCRIPTION>>>>
    ELSE <<H2(DESCRIPTION), <<>>, <<Trim(description)>>>>

\* links.join(' ')
RECURSIVE JoinSpace(_)
JoinSpace(links) ==
    IF Len(links) <= 1 THEN Flatten(links)
    ELSE Head(links) \o <<" ">> \o JoinSpace(Tail(links))

IssueLink(issue) == <<"[[", Trim(issue), "]]">>

\* A related-issues section that links the blank entries too.
generateRelatedIssuesKeepsBlank(relatedIssues) ==
    IF Len(relatedIssues) = 0 THEN <<>>
    ELSE <<H2(RELATED_ISSUES), <<>>, JoinSpace(MapSeq(relatedIssues, IssueLink))>>

\* generateRelatedIssues: <<>> stands for the empty string it returns.
generateRelatedIssues(relatedIssues) ==
    IF Len(relatedIssues) = 0 THEN <<>>
    ELSE LET issueLinks ==
                 JoinSpace(MapSeq(SelectSeq(relatedIssues, LAMBDA issue : Trim(issue) # ""),
                                  IssueLink))
         IN IF issueLinks = <<>> THEN <<>>
            ELSE <<H2(RELATED_ISSUES), <<>>, issueLinks>>

generateMarkdown(checklist, reportData, now) ==
    LET relatedIssuesSection ==
            generateRelatedIssues(IF reportData.relatedIssues.t = "arr"
                                  THEN reportData.relatedIssues.items ELSE <<>>)
    IN <<<<TITLE>>, <<>>>>
       \o generateBasicInfo(reportData, now)
       \o <<<<SEPARATOR>>, <<>>>>
       \o generateChecklistResults(checklist)
       \o <<<<SEPARATOR>>, <<>>>>
       \o generateAttachments(reportData.screenshots)
       \o <<<<SEPARATOR>>, <<>>>>
       \o generateDescription(reportData.description)
       \o (IF relatedIssuesSection # <<>>
           THEN <<<<SEPARATOR>>, <<>>>> \o relatedIssuesSection ELSE <<>>)

\* The text of a line and the number of characters of a document.
RECURSIVE LineText(_)
LineText(line) == IF line = <<>> THEN "" ELSE Head(line) \o LineText(Tail(line))

RECURSIVE TextLength(_)
TextLength(lines) ==
    IF lines = <<>> THEN 0
    ELSE Len(LineText(Head(lines))) + (IF Len(lines) > 1 THEN 1 ELSE 0) + TextLength(Tail(lines))

-----------------------------------------------------------------------------
(* The generator applied to the checklists and report records of a session *)

MdItems ==
    {Item(Str("r1"), Str("Check A"), Bool(FALSE), Str("X")),
     Item(Str("r2"), Str("Check B"), Bool(TRUE), Str("2")),
     Item(Str("r3"), Str("Check C"), Bool(FALSE), Str("1")),
     Item(Str("r4"), Str("Check D"), Bool(FALSE), Undef),
     Item(Str("r5"), Str("Check E"), Bool(TRUE), Str("X"))}

MdChecklists == SeqsUpTo(MdItems, MaxLen)

MdReports ==
    {MdReport("PROJ-1", "high", "Bug", "", <<>>, Issues(<<>>)),
     MdReport("", "medium", "", "  ", <<File("a.png")>>, IssuesUndef),
     MdReport("PROJ-1", "low", "Bug", " Broken layout ", <<File("a.png"), File("b.png")>>,
              Issues(<<"PROJ-1", " ", " PROJ-2 ">>)),
     MdReport("PROJ-1", "high", "Bug", "Broken layout", <<>>, Issues(<<"", "  ">>))}

GenerateOp ==
    /\ lastOp' = "generateMarkdown"
    /\ ret' = [NoRet EXCEPT !.markdown = generateMarkdown(state.checklist, state.reportData, clock)]
    /\ UNCHANGED <<store, clock, state, rendered, phase, mdSet>>

\* The check box of item i is clicked.
ToggleOp(i) ==
    /\ i \in 1..Len(state.checklist)
    /\ state' = [state EXCEPT !.checklist[i].checked = Bool(~Truthy(state.checklist[i].checked))]
    /\ rendered' = state'
    /\ lastOp' = "toggle"
    /\ ret' = [NoRet EXCEPT !.itemId = state.checklist[i].id]
    /\ UNCHANGED <<store, clock, phase, mdSet>>

InitMarkdown ==
    \E checklist \in MdChecklists, reportData \in MdReports :
        /\ store = EmptyStore
        /\ clock = 1
        /\ state = [initialState EXCEPT !.checklist = checklist, !.reportData = reportData]
        /\ rendered = state
        /\ phase = "ready"
        /\ lastOp = "none"
        /\ ret = NoRet
        /\ mdSet = FALSE

NextMarkdown ==
    \/ Tick
    \/ GenerateOp
    \/ \E i \in 1..MaxLen : ToggleOp(i)

SpecMarkdown == InitMarkdown /\ [][NextMarkdown]_vars

-----------------------------------------------------------------------------
(* utils/localStorage.ts: getStorageInfo.  It reads the stored texts without
   parsing them, so a store holds here, for each key, whether a text is
   present and how many characters it has.  localStorage.getItem does not
   throw. *)

STORAGE_KEYS == <<"ruleSets", "formData", "checklist">>

StoredText(len) == [k |-> "text", len |-> len]

NoStoredText == [k |-> "absent", len |-> 0]

ESTIMATED == 5 * 1024 * 1024

\* used += item.length over the keys.
RECURSIVE UsedBy(_, _)
UsedBy(s, keys) ==
    IF keys = <<>> THEN 0 ELSE s[Head(keys)].len + UsedBy(s, Tail(keys))

\* A getStorageInfo without Math.max.
getStorageInfoUnclamped(s) ==
    LET keys == SelectSeq(STORAGE_KEYS, LAMBDA key : s[key].k # "absent")
        used == UsedBy(s, keys)
    IN [used |-> used, available |-> ESTIMATED - used, keys |-> keys]

getStorageInfo(s) ==
    LET keys == SelectSeq(STORAGE_KEYS, LAMBDA key : s[key].k # "absent")
        used == UsedBy(s, keys)
        available == IF ESTIMATED - used > 0 THEN ESTIMATED - used ELSE 0
    IN [used |-> used, available |-> available, keys |-> keys]

\* Lengths of stored texts: empty, short, half the estimate, the estimate
\* and one character more.
TextLengths == {0, 2, 2621440, 5242880, 5242881}

GetStorageInfoOp ==
    /\ lastOp' = "getStorageInfo"
    /\ ret' = [NoRet EXCEPT !.info = getStorageInfo(store)]
    /\ UNCHANGED <<store, clock, state, rendered, phase, mdSet>>

\* localStorage.setItem and removeItem on one of the keys.
SetItemOp(key, len) ==
    /\ lastOp' = "setItem"
    /\ store' = [store EXCEPT ![key] = StoredText(len)]
    /\ ret' = NoRet
    /\ UNCHANGED <<clock, state, rendered, phase, mdSet>>

RemoveItemOp(key) ==
    /\ lastOp' = "removeItem"
    /\ store' = [store EXCEPT ![key] = NoStoredText]
    /\ ret' = NoRet
    /\ UNCHANGED <<clock, state, rendered, phase, mdSet>>

InitUsage ==
    /\ store = [key \in {"ruleSets", "formData", "checklist"} |-> NoStoredText]
    /\ clock = 1
    /\ state = initialState
    /\ rendered = initialState
    /\ phase = "storage"
    /\ lastOp = "none"
    /\ ret = NoRet
    /\ mdSet = FALSE

NextUsage ==
    \/ GetStorageInfoOp
    \/ \E key \in {"ruleSets", "formData", "checklist"}, len \in TextLengths : SetItemOp(key, len)
    \/ \E key \in {"ruleSets", "formData", "checklist"} : RemoveItemOp(key)

SpecUsage == InitUsage /\ [][NextUsage]_vars

-----------------------------------------------------------------------------
(* The rule-set collection driven by saveRuleSet and removeRuleSet alone,
   from an empty store (localStorageDemo.testRuleSetOperations) *)

SaveRuleSetCall(ruleSet, quota) ==
    /\ Step("saveRuleSet", saveRuleSet(store, ruleSet, clock, quota), state,
            [NoRet EXCEPT !.quota = quota, !.ruleSet = ruleSet])
    /\ UNCHANGED <<clock, phase, mdSet>>

RemoveRuleSetCall(ruleSetId, quota) ==
    /\ Step("removeRuleSet", removeRuleSet(store, ruleSetId, quota), state,
            [NoRet EXCEPT !.quota = quota, !.itemId = ruleSetId])
    /\ UNCHANGED <<clock, phase, mdSet>>

NextRuleSets ==
    \/ Tick
    \/ \E ruleSet \in RuleSetInputs, quota \in BOOLEAN : SaveRuleSetCall(ruleSet, quota)
    \/ \E ruleSetId \in RuleSetIds, quota \in BOOLEAN : RemoveRuleSetCall(ruleSetId, quota)

SpecRuleSets == InitEmptyStore /\ [][NextRuleSets]_vars

-----------------------------------------------------------------------------
(* Startup with stored rule sets that share ids with each other and with the
   built-in rule sets *)

\* A stored rule set with the id of a built-in one.
StoredCodeReview ==
    RuleSetRec(codeReviewRules.id, Str("My code review"), RulesArr(<<Rule1>>), DateOf(1), DateOf(1))

MergeElems ==
    {EncodeRuleSet(CustomA), EncodeRuleSet(CustomA2), EncodeRuleSet(CustomB),
     EncodeRuleSet(StoredCodeReview), NoNameElem}

MergeStores ==
    {[ruleSets |-> r, formData |-> f, checklist |-> AbsentList] :
        r \in ListTexts(MergeElems), f \in {AbsentForm, SavedSession.formData}}

InitMerge == \E s \in MergeStores : InitWith(s, "mounting")

SpecMerge == InitMerge /\ [][NextStartup]_vars

-----------------------------------------------------------------------------
(* utils/validation.ts: ConfigManagerImpl.  Of each group of AppConfig the
   model keeps the fields validateConfig reports errors on: general.theme,
   advanced.maxFileSize and backlogApi (enabled and the two required fields
   of its optional config object; hasConfig says that the object is there).
   A field an update does not carry is Undef.  `state` is the instance,
   `store` holds the text of the configuration key. *)

NumOf(n) == [t |-> "num", n |-> n]

NumUndef == [t |-> "undef", n |-> 0]

AppConfig(theme, enabled, hasConfig, baseUrl, apiKey, maxFileSize) ==
    [general |-> [theme |-> theme],
     backlogApi |-> [enabled |-> enabled, hasConfig |-> hasConfig,
                     baseUrl |-> baseUrl, apiKey |-> apiKey],
     advanced |-> [maxFileSize |-> maxFileSize]]

DEFAULT_APP_CONFIG == AppConfig(Str("light"), Bool(FALSE), FALSE, Undef, Undef, NumOf(10))

\* {...a, ...b} on one field.
Over(a, b) == IF b.t = "undef" THEN a ELSE b

mergeConfig(base, updates) ==
    [general |-> [theme |-> Over(base.general.theme, updates.general.theme)],
     backlogApi |->
         [enabled |-> Over(base.backlogApi.enabled, updates.backlogApi.enabled),
          hasConfig |-> base.backlogApi.hasConfig \/ updates.backlogApi.hasConfig,
          baseUrl |-> IF updates.backlogApi.hasConfig
                      THEN Over(base.backlogApi.baseUrl, updates.backlogApi.baseUrl)
                      ELSE base.backlogApi.baseUrl,
          apiKey |-> IF updates.backlogApi.hasConfig
                     THEN Over(base.backlogApi.apiKey, updates.backlogApi.apiKey)
                     ELSE base.backlogApi.apiKey],
     advanced |-> [maxFileSize |-> Over(base.advanced.maxFileSize, updates.advanced.maxFileSize)]]

\* The fields validateConfig pushes an error for.
validateConfig(config) ==
    LET errors ==
            (IF config.general.theme \notin {Str("light"), Str("dark"), Str("auto")}
             THEN <<"general.theme">> ELSE <<>>)
            \o (IF config.advanced.maxFileSize.t = "num"
                   /\ (config.advanced.maxFileSize.n < 1 \/ config.advanced.maxFileSize.n > 50)
                THEN <<"advanced.maxFileSize">> ELSE <<>>)
            \o (IF Truthy(config.backlogApi.enabled) /\ config.backlogApi.hasConfig
                   /\ ~Truthy(config.backlogApi.baseUrl)
                THEN <<"backlogApi.config.baseUrl">> ELSE <<>>)
            \o (IF Truthy(config.backlogApi.enabled) /\ config.backlogApi.hasConfig
                   /\ ~Truthy(config.backlogApi.apiKey)
                THEN <<"backlogApi.config.apiKey">> ELSE <<>>)
    IN [isValid |-> Len(errors) = 0, errors |-> errors]

ConfigText(k, obj) == [k |-> k, obj |-> obj]

AbsentConfig == ConfigText("absent", DEFAULT_APP_CONFIG)

\* loadConfig: the defaults when the key is absent or the merged
\* configuration fails validation.
loadConfig(s) ==
    IF s.config.k = "absent" THEN DEFAULT_APP_CONFIG
    ELSE LET merged == mergeConfig(DEFAULT_APP_CONFIG, s.config.obj)
         IN IF ~validateConfig(merged).isValid THEN DEFAULT_APP_CONFIG ELSE merged

\* saveConfig: the write is caught when the store rejects it.
saveConfig(s, config, quota) ==
    IF quota THEN s ELSE [s EXCEPT !.config = ConfigText("object", config)]

updateConfig(s, inst, updates, quota) ==
    LET newConfig == mergeConfig(inst.config, updates)
    IN [store |-> saveConfig(s, newConfig, quota), inst |-> [inst EXCEPT !.config = newConfig]]

resetConfig(s, inst, quota) ==
    [store |-> saveConfig(s, DEFAULT_APP_CONFIG, quota),
     inst |-> [inst EXCEPT !.config = DEFAULT_APP_CONFIG]]

NoUpdate == AppConfig(Undef, Undef, FALSE, Undef, Undef, NumUndef)

\* Partial<AppConfig> arguments of updateConfig.
ConfigUpdates ==
    {[NoUpdate EXCEPT !.general.theme = Str("dark")],
     [NoUpdate EXCEPT !.general.theme = Str("purple")],
     [NoUpdate EXCEPT !.advanced.maxFileSize = NumOf(20)],
     [NoUpdate EXCEPT !.advanced.maxFileSize = NumOf(0)],
     [NoUpdate EXCEPT !.backlogApi.enabled = Bool(TRUE)],
     [NoUpdate EXCEPT !.backlogApi.enabled = Bool(FALSE)],
     [NoUpdate EXCEPT !.backlogApi.hasConfig = TRUE, !.backlogApi.baseUrl = Str("https://x.backlog.jp")],
     [NoUpdate EXCEPT !.backlogApi.hasConfig = TRUE, !.backlogApi.apiKey = Str("key")]}

ConfigStep(op, r, quota) ==
    /\ store' = r.store
    /\ state' = r.inst
    /\ rendered' = r.inst
    /\ lastOp' = op
    /\ ret' = [NoRet EXCEPT !.quota = quota]
    /\ UNCHANGED <<clock, phase, mdSet>>

\* new ConfigManagerImpl()
NewConfigManagerOp ==
    ConfigStep("loadConfig", [store |-> store, inst |-> [config |-> loadConfig(store)]], FALSE)

UpdateConfigOp(updates, quota) == ConfigStep("updateConfig", updateConfig(store, state, updates, quota), quota)

ResetConfigOp(quota) == ConfigStep("resetConfig", resetConfig(store, state, quota), quota)

InitConfig ==
    /\ store = [config |-> AbsentConfig]
    /\ clock = 1
    /\ state = [config |-> loadConfig(store)]
    /\ rendered = state
    /\ phase = "ready"
    /\ lastOp = "none"
    /\ ret = NoRet
    /\ mdSet = FALSE

NextConfig ==
    \/ NewConfigManagerOp
    \/ \E updates \in ConfigUpdates, quota \in BOOLEAN : UpdateConfigOp(updates, quota)
    \/ \E quota \in BOOLEAN : ResetConfigOp(quota)

SpecConfig == InitConfig /\ [][NextConfig]_vars

-----------------------------------------------------------------------------
(* utils/backlogApiClient.ts: BacklogApiClientImpl, and
   contexts/BacklogAuthContext.tsx: BacklogAuthProvider.  `state` holds the
   client instance and the provider state; `store` holds what lies outside
   them: the authenticate calls whose fetch has not answered yet (each with
   the configuration its URL was built from), and the history the
   properties speak about (the configuration of the last successful
   authenticate with no logout since, whether a logout has been called with
   no later-started authenticate succeeding since). *)

BacklogApiConfig(baseUrl, apiKey) == [k |-> "obj", baseUrl |-> baseUrl, apiKey |-> apiKey]

NullConfig == [k |-> "null", baseUrl |-> "", apiKey |-> ""]

ConfigA == BacklogApiConfig("https://a.backlog.jp", "key-a")

ConfigB == BacklogApiConfig("https://b.backlog.jp", "key-b")

ConfigNoKey == BacklogApiConfig("https://a.backlog.jp", "")

\* The user the server answers for an API key; "" is null.
UserOf(config) == config.apiKey

NewClient == [config |-> NullConfig, isAuthenticated |-> FALSE, currentUser |-> ""]

NewProvider ==
    [isAuthenticated |-> FALSE, currentUser |-> "", config |-> NullConfig,
     isLoading |-> FALSE, error |-> ""]

configure(client, config) == [client EXCEPT !.config = config]

isConfigured(client) ==
    client.config.k # "null" /\ client.config.baseUrl # "" /\ client.config.apiKey # ""

\* authenticate up to its await: the failure it returns at once, or the
\* request it sends.
AuthRequest(client, arg) ==
    [config |-> client.config, arg |-> arg, stale |-> FALSE,
     code |-> IF ~isConfigured(client) THEN "CONFIG_REQUIRED" ELSE "fetch"]

\* authenticate after its await: ok says that response.ok.
authenticateResponse(client, request, ok) ==
    IF ok THEN [client EXCEPT !.isAuthenticated = TRUE, !.currentUser = UserOf(request.config)]
    ELSE client

\* The test the six operations start with.
getProject(client) == IF ~client.isAuthenticated THEN "AUTH_REQUIRED" ELSE "fetch"

ApiOperations == {"getProject", "getIssue", "getIssues", "addComment", "getComments", "uploadAttachment"}

logout(client) == [client EXCEPT !.isAuthenticated = FALSE, !.currentUser = ""]

RemoveAt(seq, i) == SubSeq(seq, 1, i - 1) \o SubSeq(seq, i + 1, Len(seq))

ConfigInputs == {ConfigA, ConfigB, ConfigNoKey}

ClientStep(op, client, auth, outside, returned) ==
    /\ state' = [client |-> client, auth |-> auth]
    /\ rendered' = state'
    /\ store' = outside
    /\ lastOp' = op
    /\ ret' = [NoRet EXCEPT !.returned = returned]
    /\ UNCHANGED <<clock, phase, mdSet>>

ConfigureOp(config) ==
    ClientStep("configure", configure(state.client, config), state.auth, store, "undefined")

\* A direct authenticate(): unconfigured, it returns CONFIG_REQUIRED.
AuthenticateOp ==
    LET request == AuthRequest(state.client, NullConfig)
    IN IF request.code = "CONFIG_REQUIRED"
       THEN ClientStep("authenticate", state.client, state.auth, store, "CONFIG_REQUIRED")
       ELSE /\ Len(store.inFlight) < MaxLen
            /\ ClientStep("authenticate", state.client, state.auth,
                          [store EXCEPT !.inFlight = Append(store.inFlight, request)], "pending")

AuthenticateResponseOp(i, ok) ==
    /\ i \in 1..Len(store.inFlight)
    /\ ClientStep("authenticateResponse",
                  authenticateResponse(state.client, store.inFlight[i], ok), state.auth,
                  [store EXCEPT !.inFlight = RemoveAt(store.inFlight, i),
                                !.verified = IF ok THEN store.inFlight[i].config ELSE store.verified],
                  IF ok THEN "success" ELSE "AUTH_FAILED")

ApiCallOp(op) == ClientStep(op, state.client, state.auth, store, getProject(state.client))

LogoutOp ==
    ClientStep("logout", logout(state.client), state.auth,
               [store EXCEPT !.verified = NullConfig], "undefined")

InitClient ==
    /\ store = [inFlight |-> <<>>, verified |-> NullConfig, loggedOut |-> FALSE]
    /\ clock = 1
    /\ state = [client |-> NewClient, auth |-> NewProvider]
    /\ rendered = state
    /\ phase = "ready"
    /\ lastOp = "none"
    /\ ret = NoRet
    /\ mdSet = FALSE

NextClient ==
    \/ \E config \in ConfigInputs : ConfigureOp(config)
    \/ AuthenticateOp
    \/ \E i \in 1..MaxLen, ok \in BOOLEAN : AuthenticateResponseOp(i, ok)
    \/ \E op \in ApiOperations : ApiCallOp(op)
    \/ LogoutOp

SpecClient == InitClient /\ [][NextClient]_vars

\* BacklogAuthProvider.authenticate up to its await: isLoading, configure, the
\* call of the client.
ProviderAuthenticateOp(config) ==
    /\ Len(store.inFlight) < MaxLen
    /\ LET client == configure(state.client, config)
       IN ClientStep("auth.authenticate", client,
                     [state.auth EXCEPT !.isLoading = TRUE, !.error = ""],
                     [store EXCEPT !.inFlight = Append(store.inFlight, AuthRequest(client, config))],
                     "pending")

\* The rest of BacklogAuthProvider.authenticate, once the client has
\* answered request i.
ProviderResponseOp(i, ok) ==
    /\ i \in 1..Len(store.inFlight)
    /\ store.inFlight[i].code = "CONFIG_REQUIRED" => ~ok
    /\ LET request == store.inFlight[i]
       IN ClientStep("auth.authenticateResponse",
                     authenticateResponse(state.client, request, ok),
                     IF ok
                     THEN [state.auth EXCEPT !.isAuthenticated = TRUE,
                                             !.currentUser = UserOf(request.config),
                                             !.config = request.arg,
                                             !.isLoading = FALSE,
                                             !.error = ""]
                     ELSE [state.auth EXCEPT !.isAuthenticated = FALSE,
                                             !.currentUser = "",
                                             !.isLoading = FALSE,
                                             !.error = IF request.code = "CONFIG_REQUIRED"
                                                       THEN "CONFIG_REQUIRED" ELSE "AUTH_FAILED"],
                     [inFlight |-> RemoveAt(store.inFlight, i),
                      verified |-> IF ok THEN request.config ELSE store.verified,
                      loggedOut |-> IF ok /\ ~request.stale THEN FALSE ELSE store.loggedOut],
                     IF ok THEN "true" ELSE "false")

\* BacklogAuthProvider.logout
ProviderLogoutOp ==
    ClientStep("auth.logout", logout(state.client),
               [state.auth EXCEPT !.isAuthenticated = FALSE, !.currentUser = "",
                                  !.config = NullConfig, !.error = ""],
               [inFlight |-> [i \in 1..Len(store.inFlight) |->
                                [store.inFlight[i] EXCEPT !.stale = TRUE]],
                verified |-> NullConfig,
                loggedOut |-> TRUE],
               "undefined")

NextAuth ==
    \/ \E config \in ConfigInputs : ProviderAuthenticateOp(config)
    \/ \E i \in 1..MaxLen, ok \in BOOLEAN : ProviderResponseOp(i, ok)
    \/ ProviderLogoutOp

SpecAuth == InitClient /\ [][NextAuth]_vars

-----------------------------------------------------------------------------
(* Properties *)

\* C1: SET_RULE_SET(R) with R holding at least one rule yields a checklist of
\* the length of R.rules, in the same order, item i carrying the id, text
\* and category of rule i with checked = false, and selectedRuleSet = R.
C1_SelectDerivesChecklist ==
    (lastOp = "SET_RULE_SET" /\ Len(ret.action.ruleSet.rules.items) >= 1) =>
        LET R == ret.action.ruleSet
            rules == R.rules.items
        IN /\ Len(state.checklist) = Len(rules)
           /\ \A i \in 1..Len(rules) :
                /\ state.checklist[i].id = rules[i].id
                /\ state.checklist[i].text = rules[i].text
                /\ state.checklist[i].category = rules[i].category
                /\ state.checklist[i].checked = Bool(FALSE)
           /\ state.selectedRuleSet = R

\* A rule set of two rules was selected while another document and report
\* were in place.
C1_Witness ==
    /\ lastOp = "SET_RULE_SET"
    /\ Len(ret.action.ruleSet.rules.items) = 2
    /\ Len(state.checklist) = 2
    /\ state.reportData # initialReportData

\* C2: generatedMarkdown is non-empty only while the last write to it was a
\* GENERATE_MARKDOWN with no SET_RULE_SET, RESET_RULE_SET, UPDATE_CHECKLIST or
\* UPDATE_REPORT_DATA since; each of those four leaves it empty.
C2_MarkdownCleared ==
    /\ state.generatedMarkdown # "" => mdSet
    /\ lastOp \in {"SET_RULE_SET", "RESET_RULE_SET", "UPDATE_CHECKLIST", "UPDATE_REPORT_DATA"}
          => state.generatedMarkdown = ""

\* A generated document is in place after the checklist and the report were
\* filled in.
C2_Witness ==
    /\ lastOp = "GENERATE_MARKDOWN"
    /\ state.generatedMarkdown # ""
    /\ state.checklist # <<>>
    /\ state.reportData # initialReportData

\* What a startup load would install from the store: the checklist, and the
\* report record without its attachments (an absent key gives the initial
\* value).
StoredChecklist(s) ==
    LET c == getChecklistState(s) IN IF c.k = "array" THEN c.items ELSE <<>>

StoredReport(s) ==
    LET d == getFormData(s)
    IN IF d.k = "object" THEN Spread(initialReportData, d.obj) ELSE initialReportData

WithoutAttachments(r) == [issueNumber |-> r.issueNumber, priority |-> r.priority]

InSync ==
    /\ StoredChecklist(store) = state.checklist
    /\ WithoutAttachments(StoredReport(store)) = WithoutAttachments(state.reportData)

\* C3: each of setRuleSet, updateChecklistItem, updateReportData and
\* clearTemporaryData whose store write succeeds takes a state whose stored
\* checklist and form data decode to the in-memory checklist and report data
\* to another such state.
C3_MutationsMirrored ==
    [][(/\ InSync
        /\ lastOp' \in {"setRuleSet", "updateChecklistItem", "updateReportData", "clearTemporaryData"}
        /\ ~ret'.quota)
       => InSync']_vars

\* C4: a repairData that follows a repairData with no store mutation in
\* between returns {repaired: false, actions: []} and leaves the store as it
\* is.
C4_RepairIdempotent ==
    [][(lastOp = "repairData" /\ lastOp' = "repairData")
       => (ret'.repaired = FALSE /\ ret'.actions = <<>> /\ store' = store)]_vars

\* repairData ran a second time on a store that still fails validation.
C4_Witness ==
    /\ lastOp = "repairData"
    /\ ret.again
    /\ ~validateStoredData(store).isValid

HasAction(actions, code) == \E i \in 1..Len(actions) : actions[i].code = code

\* C5: with an unparseable text under the form-data key, validateStoredData
\* returns isValid = false, and repairData removes the key and returns an
\* action naming the form data.
C5_CorruptFormDataRemoved ==
    [][(store.formData.k = "garbage" /\ lastOp' \in {"validateStoredData", "repairData"})
       => IF lastOp' = "validateStoredData"
          THEN ret'.isValid = FALSE
          ELSE /\ store'.formData.k = "absent"
               /\ HasAction(ret'.actions, "corrupted-form-data-removed")]_vars

\* Every family decodes, element by element.
FamiliesDecode(s) ==
    /\ s.ruleSets.k \in {"absent", "array"}
    /\ \A i \in 1..Len(s.ruleSets.items) : s.ruleSets.items[i].k = "obj"
    /\ s.checklist.k \in {"absent", "array"}
    /\ \A i \in 1..Len(s.checklist.items) : s.checklist.items[i].k = "obj"
    /\ FormErrors(getFormData(s)) = <<>>

RuleSetPasses(r) == RuleSetErrors(r, 0) = <<>>

ItemPasses(it) == ItemErrors(it, 0) = <<>>

\* C6: when every family decodes, repairData keeps exactly the rule sets and
\* the checklist items that pass the validator's per-element checks, in
\* their order, and validateStoredData reports isValid = true afterwards.
C6_RepairDropsOffenders ==
    [][(FamiliesDecode(store) /\ lastOp' = "repairData" /\ ~ret'.quota)
       => /\ getRuleSets(store') = SelectSeq(getRuleSets(store), RuleSetPasses)
          /\ StoredChecklist(store') = SelectSeq(StoredChecklist(store), ItemPasses)
          /\ validateStoredData(store').isValid]_vars

WellFormedItem(it) == IsString(it.id) /\ IsString(it.text) /\ IsBoolean(it.checked)

\* C7: initialization repairs exactly when validation failed, and the
\* checklist and report data it installs are well-formed: string id, string
\* text and boolean checked in every item, priority one of low/medium/high.
C7_StartupWellFormed ==
    lastOp = "initializeFromStorage" =>
        /\ ret.repairRan = ~ret.isValid
        /\ \A i \in 1..Len(state.checklist) : WellFormedItem(state.checklist[i])
        /\ IsString(state.reportData.priority) /\ state.reportData.priority.v \in Priorities

SeqToSet(seq) == {seq[i] : i \in 1..Len(seq)}

\* C8: for a store whose rule sets are all valid, exportData, clearAllData,
\* importData(exported) reports success and leaves the same set of rule
\* sets, compared field by field.
C8_ExportImportRestores ==
    [][(lastOp' = "testExportImport" /\ AllRuleSetErrors(getRuleSets(store), 1) = <<>>)
       => /\ ret'.success
          /\ SeqToSet(getRuleSets(store')) = SeqToSet(getRuleSets(store))]_vars

FailsValidation(e) == validateRuleSet(DecodeRuleSet(e)) # <<>>

Stored(s, e) == \E i \in 1..Len(getRuleSets(s)) : getRuleSets(s)[i].id = e.id /\ getRuleSets(s)[i].name = e.name

\* C9: importing a bundle that holds rule sets failing rule-set validation
\* next to valid ones returns success = false with one error per failing
\* rule set; the failing ones are not stored, the valid ones are.
C9_ImportSkipsInvalid ==
    (/\ lastOp = "importData"
     /\ ~ret.quota
     /\ ret.bundle.k = "object"
     /\ ret.bundle.ruleSets.k = "array"
     /\ \A i \in 1..Len(ret.bundle.ruleSets.items) : ret.bundle.ruleSets.items[i].k = "obj"
     /\ \E i \in 1..Len(ret.bundle.ruleSets.items) : FailsValidation(ret.bundle.ruleSets.items[i]))
    => LET items == ret.bundle.ruleSets.items
           failing == {i \in 1..Len(items) : FailsValidation(items[i])}
       IN /\ ret.success = FALSE
          /\ \A i \in failing : \E j \in 1..Len(ret.importErrors) :
                /\ ret.importErrors[j].code = "ruleset-import-failed"
                /\ ret.importErrors[j].name = items[i].name
          /\ Cardinality({j \in 1..Len(ret.importErrors) :
                            ret.importErrors[j].code = "ruleset-import-failed"}) = Cardinality(failing)
          /\ \A i \in 1..Len(items) : Stored(store, items[i]) <=> i \notin failing

\* C10: from an empty store, after any sequence of the write operations,
\* validateStoredData returns isValid = true.
C10_WritePathsValid == validateStoredData(store).isValid

\* C11: after a saveFormData whose write succeeded, getFormData returns every
\* non-attachment field as it was saved and an empty screenshots array, and
\* the startup load installs the same over the initial report data.
C11_SavedFormReadsBack ==
    (lastOp = "saveFormData" /\ ~ret.quota) =>
        LET d == getFormData(store)
            loaded == LoadFromStorage(store, initialState, TRUE).state.reportData
        IN /\ d.k = "object"
           /\ d.obj.issueNumber = ret.data.issueNumber
           /\ d.obj.priority = ret.data.priority
           /\ d.obj.screenshots = Shots(<<>>)
           /\ loaded = [Spread(initialReportData, ret.data) EXCEPT !.screenshots = Shots(<<>>)]

\* A report with an attached file was saved: the stored text holds the name.
C11_Witness ==
    /\ lastOp = "saveFormData"
    /\ ~ret.quota
    /\ ret.data.screenshots = Shots(<<File("a.png")>>)
    /\ store.formData.obj.screenshots = Shots(<<Str("a.png")>>)

\* C12: when the store rejects the write of updateChecklistItem or
\* updateReportData, the in-memory state holds the new checklist or report
\* record all the same, the store is left as it was, and the next render
\* hands that in-memory state to the later calls.
C12_WriteFailureKeepsState ==
    [][/\ (lastOp' = "updateChecklistItem" /\ ret'.quota /\ ret' # ret) =>
            /\ state'.checklist = WithChecked(rendered.checklist, ret'.itemId, ret'.checked)
            /\ store' = store
       /\ (lastOp' = "updateReportData" /\ ret'.quota /\ ret' # ret) =>
            /\ state'.reportData = Spread(rendered.reportData, ret'.data)
            /\ store' = store
       /\ (rendered' # rendered) => (rendered' = state /\ state' = state)]_vars

\* A rejected write left the stored checklist behind the in-memory one, and
\* the provider has re-rendered with the in-memory one.
C12_Witness ==
    /\ lastOp = "updateChecklistItem"
    /\ ret.quota
    /\ state.checklist # StoredChecklist(store)
    /\ state.checklist # BatchState.checklist
    /\ rendered = state

\* C13: deleting a rule set by identifier leaves the in-memory checklist as
\* it is, also when the deleted rule set is the selected one.
C13_DeleteKeepsChecklist ==
    [][lastOp' = "handleDeleteRuleSet" => state'.checklist = state.checklist]_vars

ItemChecked(checklist, itemId) ==
    {checklist[i].checked : i \in {j \in 1..Len(checklist) : checklist[j].id = itemId}}

\* C14: two updateChecklistItem calls on different item ids, or two
\* updateReportData calls on different fields, issued one after the other
\* with every write succeeding, leave both changes in the in-memory state
\* and in the stored copy, also when no re-render came between them.
C14_NoLostUpdate ==
    [][/\ (/\ lastOp = "updateChecklistItem" /\ lastOp' = "updateChecklistItem"
            /\ ret.itemId # ret'.itemId /\ ~ret.quota /\ ~ret'.quota)
           => /\ ItemChecked(state'.checklist, ret.itemId) = {ret.checked}
              /\ ItemChecked(state'.checklist, ret'.itemId) = {ret'.checked}
              /\ StoredChecklist(store') = state'.checklist
       /\ (/\ lastOp = "updateReportData" /\ lastOp' = "updateReportData"
            /\ ret.data # ret'.data /\ ~ret.quota /\ ~ret'.quota)
           => /\ state'.reportData = Spread(Spread(state.reportData, ret.data), ret'.data)
              /\ getFormData(store').obj.issueNumber = state'.reportData.issueNumber
              /\ getFormData(store').obj.priority = state'.reportData.priority]_vars

\* The places where two lines differ.
DifferingPieces(a, b) == {j \in 1..Len(a) : a[j] # b[j]}

\* Two documents that differ in one character, a check box marker.
OneMarkerDiffers(a, b) ==
    /\ Len(a) = Len(b)
    /\ TextLength(a) = TextLength(b)
    /\ \E i \in 1..Len(a) :
        /\ \A k \in 1..Len(a) : (a[k] # b[k]) <=> (k = i)
        /\ Len(a[i]) = Len(b[i])
        /\ Head(a[i]) = "* ["
        /\ DifferingPieces(a[i], b[i]) = {2}
        /\ {a[i][2], b[i][2]} = {"x", " "}

RECURSIVE BlockLabels(_)
BlockLabels(lines) ==
    IF lines = <<>> THEN <<>>
    ELSE (IF Head(lines) # <<>> /\ Head(Head(lines)) = "### " THEN <<Head(lines)[2]>> ELSE <<>>)
         \o BlockLabels(Tail(lines))

\* The item lines under the heading of one category.
RECURSIVE BlockItems(_, _, _)
BlockItems(lines, category, current) ==
    IF lines = <<>> THEN <<>>
    ELSE LET line == Head(lines)
         IN IF line # <<>> /\ Head(line) = "### "
            THEN BlockItems(Tail(lines), category, line[2])
            ELSE (IF line # <<>> /\ Head(line) = "* [" /\ current = category
                  THEN <<line>> ELSE <<>>)
                 \o BlockItems(Tail(lines), category, current)

\* The position of the first item of a category.
FirstSeen(checklist, category) ==
    CHOOSE i \in 1..Len(checklist) :
        /\ CategoryOf(checklist[i]) = category
        /\ \A j \in 1..(i - 1) : CategoryOf(checklist[j]) # category

\* C16: for a non-empty checklist the document has one block per distinct
\* category, the blocks in the order in which the categories first occur in
\* the checklist (labels that look like integers included), the items
\* without a category under the default label, the items of a block in
\* checklist order, and every item rendered once.
C16_BlocksInFirstSeenOrder ==
    (lastOp = "generateMarkdown" /\ Len(state.checklist) > 0) =>
        \E labels \in {BlockLabels(ret.markdown)} :
            /\ \A p, q \in 1..Len(labels) : p # q => labels[p] # labels[q]
            /\ {labels[p] : p \in 1..Len(labels)}
                   = {CategoryOf(state.checklist[i]) : i \in 1..Len(state.checklist)}
            /\ \A p, q \in 1..Len(labels) :
                   p < q => FirstSeen(state.checklist, labels[p]) < FirstSeen(state.checklist, labels[q])
            /\ \A p \in 1..Len(labels) :
                   BlockItems(ret.markdown, labels[p], "")
                       = MapSeq(SelectSeq(state.checklist,
                                          LAMBDA item : CategoryOf(item) = labels[p]),
                                LAMBDA item : <<"* [", IF Truthy(item.checked) THEN "x" ELSE " ",
                                                "] ", item.text.v>>)

\* The lines of a document that are the heading of the given section.
HeadingLines(lines, label) == {i \in 1..Len(lines) : lines[i] = H2(label)}

\* A line that is the links [[id]] of the given identifiers, one space
\* between two links.
IsLinksOf(line, ids) ==
    /\ Len(line) = 4 * Len(ids) - 1
    /\ \A k \in 1..Len(ids) :
        /\ line[4 * k - 3] = "[["
        /\ line[4 * k - 2] = ids[k]
        /\ line[4 * k - 1] = "]]"
        /\ k < Len(ids) => line[4 * k] = " "

\* The related issues of a report record that are not empty after trimming.
NonBlankIssues(reportData) ==
    SelectSeq(IF reportData.relatedIssues.t = "arr" THEN reportData.relatedIssues.items ELSE <<>>,
              LAMBDA issue : Trim(issue) # "")

SectionLines(lines) == {i \in 1..Len(lines) : lines[i] # <<>> /\ Head(lines[i]) = "## "}

SeparatorLines(lines) == {i \in 1..Len(lines) : lines[i] = <<SEPARATOR>>}

\* The section labels a document has to carry, in order.
SectionsOf(reportData) ==
    <<BASIC_INFO, CHECKLIST_RESULTS, ATTACHMENTS, DESCRIPTION>>
    \o (IF NonBlankIssues(reportData) # <<>> THEN <<RELATED_ISSUES>> ELSE <<>>)

\* The lines of a section that starts at line h: the heading, an empty
\* line and the placeholder sentence.
IsPlaceholderSection(lines, h, label, sentence) ==
    /\ lines[h] = H2(label)
    /\ lines[h + 1] = <<>>
    /\ lines[h + 2] = <<sentence>>
    /\ h + 3 <= Len(lines) => lines[h + 3] = <<SEPARATOR>>

C19_QuotaReportedAsError ==
    [][(/\ lastOp' \in {"saveRuleSet", "saveFormData", "saveChecklistState"}
        /\ clock' = clock
        /\ ret'.quota)
          => /\ store' = store
             /\ ret'.returned # "undefined"]_vars

\* C20: importing a bundle whose version is not the current format version
\* stores the records the same bundle with the current version would
\* store, succeeds or fails as that bundle would, and reports the mismatch
\* among the messages of the result.
C20_VersionMismatchWarned ==
    [][(/\ lastOp' = "importData"
        /\ clock' = clock
        /\ ret'.bundle.k = "object"
        /\ ret'.bundle.version # Str(FORMAT_VERSION))
          => \E current \in {importData(store, [ret'.bundle EXCEPT !.version = Str(FORMAT_VERSION)],
                                         clock, ret'.quota)} :
                /\ store' = current.store
                /\ ret'.success = current.success
                /\ \E i \in 1..Len(ret'.importErrors) :
                       ret'.importErrors[i].code = "version-mismatch"]_vars

\* C21: after clearTemporaryData the in-memory report data is the initial
\* report data, the checklist is empty, no rule set is selected and the
\* generated markdown is empty; the form-data and checklist keys are absent
\* from the store; the stored rule sets and availableRuleSets are as before.
C21_ClearTemporaryData ==
    [][lastOp' = "clearTemporaryData" =>
          /\ state'.reportData = initialReportData
          /\ state'.checklist = <<>>
          /\ state'.selectedRuleSet = NullRuleSetElem
          /\ state'.generatedMarkdown = ""
          /\ store'.formData = AbsentForm
          /\ store'.checklist = AbsentList
          /\ store'.ruleSets = store.ruleSets
          /\ state'.availableRuleSets = state.availableRuleSets]_vars

\* The temporary data of a session with a stored custom rule set was
\* cleared: the rule set is still stored and still offered.
C21_Witness ==
    /\ lastOp = "clearTemporaryData"
    /\ store.ruleSets = SavedSession.ruleSets
    /\ store.formData = AbsentForm
    /\ Len(state.availableRuleSets) = Len(allRuleSets) + 1
    /\ state.selectedRuleSet = NullRuleSetElem

\* C22: SET_AVAILABLE_RULE_SETS leaves checklist, selectedRuleSet,
\* reportData and generatedMarkdown as they are, also when the new list
\* holds an edited version of the selected rule set.
C22_AvailableRuleSetsFrame ==
    [][lastOp' = "SET_AVAILABLE_RULE_SETS" =>
          /\ state'.checklist = state.checklist
          /\ state'.selectedRuleSet = state.selectedRuleSet
          /\ state'.reportData = state.reportData
          /\ state'.generatedMarkdown = state.generatedMarkdown
          /\ (ret' # ret => state'.availableRuleSets = ret'.action.ruleSets)]_vars

\* The list was replaced by one holding an edited version of the selected
\* rule set while a checked checklist and a generated document were in
\* place.
C22_Witness ==
    /\ lastOp = "SET_AVAILABLE_RULE_SETS"
    /\ state.selectedRuleSet = CustomA
    /\ state.availableRuleSets = Append(allRuleSets, CustomA2)
    /\ state.checklist = <<[Item1 EXCEPT !.checked = Bool(TRUE)], Item2>>
    /\ state.generatedMarkdown # ""

\* The keys of the store that hold a text.
PresentKeys(s) == {key \in {"ruleSets", "formData", "checklist"} : s[key].k # "absent"}

C23_WitnessBelow ==
    /\ lastOp = "getStorageInfo"
    /\ ret.info.keys = <<"formData">>
    /\ ret.info.used = 2
    /\ ret.info.available = 5242878

\* The entries of a collection whose id is not the given one.
OtherThan(ruleSets, id) == SelectSeq(ruleSets, LAMBDA rs : rs.id # id)

\* C24: from an empty store, after any sequence of saveRuleSet and
\* removeRuleSet the stored ids are pairwise distinct; a saveRuleSet(r)
\* whose write is accepted leaves one entry with r.id, equal to r in every
\* field but updatedAt; a removeRuleSet(id) removes the entry with that id
\* only; both leave the entries with other ids as they were.
C24_RuleSetsKeyedById ==
    [][\E before \in {getRuleSets(store)}, after \in {getRuleSets(store')} :
          /\ \A i, j \in 1..Len(after) : i # j => after[i].id # after[j].id
          /\ (lastOp' = "saveRuleSet" /\ ~ret'.quota) =>
                /\ Cardinality({i \in 1..Len(after) : after[i].id = ret'.ruleSet.id}) = 1
                /\ \A i \in 1..Len(after) :
                       after[i].id = ret'.ruleSet.id
                           => [after[i] EXCEPT !.updatedAt = ret'.ruleSet.updatedAt] = ret'.ruleSet
                /\ OtherThan(after, ret'.ruleSet.id) = OtherThan(before, ret'.ruleSet.id)
          /\ (lastOp' = "removeRuleSet" /\ ~ret'.quota) =>
                after = OtherThan(before, ret'.itemId)]_vars

\* The edited version of a stored rule set was saved next to another rule
\* set: it took the place of the version stored before.
C24_Witness ==
    /\ lastOp = "saveRuleSet"
    /\ ~ret.quota
    /\ ret.ruleSet = CustomA2
    /\ Len(getRuleSets(store)) = 2
    /\ getRuleSets(store)[1].id = CustomB.id
    /\ getRuleSets(store)[2].name = CustomA2.name

\* The positions of a stored collection that the startup merge takes over:
\* the id is not the id of a built-in rule set nor of an earlier entry.
TakenOver(stored) ==
    {i \in 1..Len(stored) :
        /\ \A d \in 1..Len(allRuleSets) : allRuleSets[d].id # stored[i].id
        /\ \A j \in 1..(i - 1) : stored[j].id # stored[i].id}

\* C25: after the startup initialization availableRuleSets is the built-in
\* rule sets in their order followed by the stored rule sets whose id is
\* not present yet, in stored order; the ids are pairwise distinct and no
\* stored rule set takes the place of a built-in one.
C25_MergedRuleSets ==
    lastOp = "initializeFromStorage" =>
        \E available \in {state.availableRuleSets}, stored \in {getRuleSets(store)} :
            /\ Len(available) = Len(allRuleSets) + Cardinality(TakenOver(stored))
            /\ \A d \in 1..Len(allRuleSets) : available[d] = allRuleSets[d]
            /\ \A i \in TakenOver(stored) :
                   available[Len(allRuleSets) + Cardinality({j \in TakenOver(stored) : j <= i})]
                       = stored[i]
            /\ \A i, j \in 1..Len(available) : i # j => available[i].id # available[j].id

\* The store held a rule set with the id of a built-in one and a custom
\* one: the built-in one is still offered, the custom one was added.
C25_Witness ==
    /\ lastOp = "initializeFromStorage"
    /\ store.ruleSets = ListText("array", <<EncodeRuleSet(StoredCodeReview), EncodeRuleSet(CustomA)>>)
    /\ Len(state.availableRuleSets) = Len(allRuleSets) + 1
    /\ state.availableRuleSets[2] = codeReviewRules
    /\ state.availableRuleSets[4].id = CustomA.id

\* The ids of the rule sets a bundle carries.
BundleIds(jsonData) ==
    IF jsonData.k = "object" /\ jsonData.ruleSets.k = "array"
    THEN {jsonData.ruleSets.items[i].id : i \in 1..Len(jsonData.ruleSets.items)}
    ELSE {}

\* C26: importData deletes nothing: the rule sets stored before whose id
\* does not occur in the bundle are stored afterwards as they were, and a
\* bundle without form data, or without a checklist array, leaves the
\* stored form data, or the stored checklist, as it was.
C26_ImportNeverDeletes ==
    [][lastOp' = "importData" =>
          \E ids \in {BundleIds(ret'.bundle)} :
              /\ SelectSeq(getRuleSets(store'), LAMBDA rs : rs.id \notin ids)
                     = SelectSeq(getRuleSets(store), LAMBDA rs : rs.id \notin ids)
              /\ (ret'.bundle.k # "object" \/ ~FormTruthy(ret'.bundle.formData))
                     => store'.formData = store.formData
              /\ (ret'.bundle.k # "object" \/ ret'.bundle.checklistState.k # "array")
                     => store'.checklist = store.checklist]_vars

\* A bundle with one rule set and nothing else was imported into a store
\* that held another rule set, form data and a checklist.
C26_Witness ==
    /\ lastOp = "importData"
    /\ ~ret.quota
    /\ ret.bundle = BundleNoVersion
    /\ Len(getRuleSets(store)) = 2
    /\ getRuleSets(store)[1].id = CustomA.id
    /\ getRuleSets(store)[2].id = CustomB.id
    /\ store.formData # AbsentForm
    /\ store.checklist # AbsentList

\* C27: in every state of the application, the state right after the
\* startup load included, a non-empty checklist comes with a selected rule
\* set.
C27_ChecklistHasRuleSet ==
    state.checklist # <<>> => state.selectedRuleSet # NullRuleSetElem

\* C28: after an updateConfig whose write the store accepted, the
\* configuration a fresh ConfigManagerImpl loads from the store is the one
\* the updated instance holds, also when that configuration fails
\* validateConfig.
C28_UpdateSurvivesReload ==
    (lastOp = "updateConfig" /\ ~ret.quota) => loadConfig(store) = state.config

\* C29: the six operations of BacklogApiClientImpl answer AUTH_REQUIRED
\* unless an authenticate has succeeded for the configuration the client
\* holds, with no logout since (so also after configure installed another
\* configuration); authenticate answers CONFIG_REQUIRED while there is no
\* base URL and API key.
C29_OperationsNeedAuthentication ==
    /\ (lastOp \in ApiOperations /\ store.verified # state.client.config)
           => ret.returned = "AUTH_REQUIRED"
    /\ (lastOp = "authenticate" /\ ~isConfigured(state.client))
           => ret.returned = "CONFIG_REQUIRED"

\* C30: in BacklogAuthProvider, after a logout isAuthenticated is false and
\* currentUser is null until an authenticate started after the logout has
\* succeeded, also when an authenticate started before it answers later;
\* and isLoading is true while an authenticate is in flight.
C30_LogoutHoldsAndLoadingTracks ==
    /\ store.loggedOut => (~state.auth.isAuthenticated /\ state.auth.currentUser = "")
    /\ store.inFlight # <<>> => state.auth.isLoading

====
